---- MODULE Spec2Model ----
(***************************************************************************)
(* Model of the sendblue client library: the Client of src/lib.rs (request *)
(* construction, the single HTTP exchange, process_response), the serde    *)
(* decoding of the response records of src/models/message.rs, and the      *)
(* builders of src/models (MessageBuilder<Message>,                        *)
(* MessageBuilder<GroupMessage>, GetMessagesParamsBuilder,                 *)
(* EvaluateServiceBuilder), the construction of the Client, and the value  *)
(* objects (PhoneNumber, MediaUrl, CallbackUrl, VoiceNote).                *)
(*                                                                         *)
(* Conventions.  Option<T> is a sequence: <<>> is None, <<v>> is Some(v).  *)
(* Strings are the program's strings; JSON texts are written out.          *)
(***************************************************************************)
EXTENDS Integers, Sequences, FiniteSets, TLC

VARIABLES
    client,     \* the Client value: api_key, api_secret, default headers, base_url
    pc,         \* position of the caller: "idle", "awaiting", "responded"
    call,       \* the operation in progress (or the last one): op, T, arg
    wire,       \* the HTTP request issued by the operation in progress
    hits,       \* number of HTTP requests issued so far
    calls,      \* number of operation calls started so far
    resp,       \* the HTTP response handed to process_response
    result,     \* the value the last operation returned to its caller
    builder,    \* the builder in use: its fields, and whether build consumed it
    built,      \* what the builder's build returned
    passed,     \* history: the value passed to the last call of each setter
    proc,       \* the process: its environment variables, whether a panic ended it
    vo,         \* the value object in hand: constructor, input, value, wire form
    ord,        \* the Status values being compared, and the result of cmp
    callers,    \* the concurrent callers of one shared Client: each one's call
    conv        \* a run of convert: its position, the ffmpeg child, the two pipes

clientVars == <<client, pc, call, wire, hits, calls, resp, result>>
builderVars == <<builder, built, passed>>
otherVars == <<ord, callers, conv>>
restVars == <<proc, vo, otherVars>>
vars == <<client, pc, call, wire, hits, calls, resp, result, builder, built,
          passed, proc, vo, ord, callers, conv>>

----------------------------------------------------------------------------
(* Bounds *)

MaxCalls == 2          \* operation calls per behaviour
MaxNumbers == 2        \* longest numbers list given to the group builder

----------------------------------------------------------------------------
(* Option<T> *)

None == <<>>
Some(v) == <<v>>
is_none(o) == Len(o) = 0
is_some(o) == Len(o) = 1
unwrap(o) == o[1]

----------------------------------------------------------------------------
(* Strings *)

\* s contains sub as a contiguous substring
Contains(s, sub) ==
    \E i \in 1..(Len(s) - Len(sub) + 1) : SubSeq(s, i, i + Len(sub) - 1) = sub

RECURSIVE JoinQuoted(_)
\* "\"a\",\"b\"" for <<"a", "b">>: the elements of a JSON array of strings
JoinQuoted(ss) ==
    IF Len(ss) = 0 THEN ""
    ELSE IF Len(ss) = 1 THEN "\"" \o ss[1] \o "\""
    ELSE "\"" \o ss[1] \o "\"," \o JoinQuoted(Tail(ss))

----------------------------------------------------------------------------
(* Client construction: src/lib.rs Client::new *)

BASE_URL == "https://api.sendblue.co/api"

KEY_HEADER == "sb-api-key-id"
SECRET_HEADER == "sb-api-secret-key"

\* the (key, secret) pairs a client is constructed with
Credentials == { <<"test_key", "test_secret">>, <<"key2", "secret2">> }

\* mutant: the two header values are inserted under each other's name
Client_new_swapped(api_key, api_secret) ==
    [ api_key    |-> api_key,
      api_secret |-> api_secret,
      headers    |-> (KEY_HEADER :> api_secret) @@ (SECRET_HEADER :> api_key),
      base_url   |-> BASE_URL ]

Client_new(api_key, api_secret) ==
    [ api_key    |-> api_key,
      api_secret |-> api_secret,
      headers    |-> (KEY_HEADER :> api_key) @@ (SECRET_HEADER :> api_secret),
      base_url   |-> BASE_URL ]

----------------------------------------------------------------------------
(* Request records and their wire form: src/models/message.rs *)

PhoneNumbers == { "+10722971673", "+19998887777" }

\* SendStyle, by variant name: src/models/send_style.rs
SendStyle ==
    { "Celebration", "ShootingStar", "Fireworks", "Lasers", "Love", "Confetti",
      "Balloons", "Spotlight", "Echo", "Invisible", "Gentle", "Loud", "Slam",
      "Default" }

\* Message values handed to the client (built by MessageBuilder<Message>)
Messages ==
    { [ number |-> "+10722971673", content |-> c, media_url |-> u,
        status_callback |-> None, send_style |-> None ] :
      c \in { Some("Test message") },
      u \in { None, Some("https://picsum.photos/200/300.jpg") } }

\* GroupMessage values handed to the client (built by MessageBuilder<GroupMessage>)
GroupMessages ==
    { [ numbers |-> Some(<<"+10722971673", "+19998887777">>), group_id |-> None,
        content |-> Some("Test group message"), media_url |-> None,
        send_style |-> None, status_callback |-> None ],
      [ numbers |-> None, group_id |-> Some("group_id"),
        content |-> None, media_url |-> Some("https://picsum.photos/200/300.jpg"),
        send_style |-> Some("Invisible"), status_callback |-> None ] }

\* GetMessagesParams values
GetMessagesParamsSet ==
    { [ cid |-> None, number |-> None, limit |-> None, offset |-> None,
        from_date |-> None ],
      [ cid |-> None, number |-> Some("+10722971673"), limit |-> Some("50"),
        offset |-> Some("0"), from_date |-> Some("2023-06-15 12:00:00") ] }

\* EvaluateService values
EvaluateServices == { [ number |-> "+10722971673" ] }

\* the String argument of send_typing_indicator: any string, no validation
TypingNumbers == { "+10722971673", "not a number" }

\* a field that serde skips when it is None (skip_serializing_if = "Option::is_none")
SkipNoneField(name, o) ==
    IF is_none(o) THEN "" ELSE ",\"" \o name \o "\":\"" \o unwrap(o) \o "\""

\* a field serialized as null when it is None
NullableField(name, o) ==
    "\"" \o name \o "\":" \o
    (IF is_none(o) THEN "null" ELSE "\"" \o unwrap(o) \o "\"")

\* serde_json text of a Message, fields in declaration order
SerializeMessage(m) ==
    "{\"number\":\"" \o m.number \o "\""
    \o SkipNoneField("content", m.content)
    \o SkipNoneField("media_url", m.media_url)
    \o SkipNoneField("status_callback", m.status_callback)
    \o SkipNoneField("send_style", m.send_style)
    \o "}"

\* serde_json text of a GroupMessage, fields in declaration order
SerializeGroupMessage(g) ==
    "{\"numbers\":"
    \o (IF is_none(g.numbers) THEN "null"
        ELSE "[" \o JoinQuoted(unwrap(g.numbers)) \o "]")
    \o "," \o NullableField("group_id", g.group_id)
    \o "," \o NullableField("content", g.content)
    \o SkipNoneField("media_url", g.media_url)
    \o SkipNoneField("send_style", g.send_style)
    \o SkipNoneField("status_callback", g.status_callback)
    \o "}"

\* the query pairs serde_urlencoded makes of GetMessagesParams: None is left out
QueryPair(name, o) == IF is_none(o) THEN <<>> ELSE << <<name, unwrap(o)>> >>

SerializeParams(p) ==
    QueryPair("cid", p.cid) \o QueryPair("number", p.number)
    \o QueryPair("limit", p.limit) \o QueryPair("offset", p.offset)
    \o QueryPair("from_date", p.from_date)

\* trait SendableMessage: the associated endpoint and response type
SendableTypes == { "Message", "GroupMessage" }

\* mutant: both implementations answer the single-message endpoint
endpoint_same(T) == "/send-message"

endpoint(T) ==
    IF T = "Message" THEN "/send-message" ELSE "/send-group-message"

ResponseType(T) ==
    IF T = "Message" THEN "MessageResponse" ELSE "GroupMessageResponse"

Serialize(T, message) ==
    IF T = "Message" THEN SerializeMessage(message)
    ELSE SerializeGroupMessage(message)

SendableValues(T) == IF T = "Message" THEN Messages ELSE GroupMessages

----------------------------------------------------------------------------
(* The request each operation builds: src/lib.rs *)

Request(c, method, url, body, query) ==
    [ method |-> method, url |-> url, headers |-> c.headers,
      body |-> body, query |-> query ]

send_request(c, T, message) ==
    Request(c, "POST", c.base_url \o endpoint(T), Serialize(T, message), <<>>)

send_message_request(c, message) ==
    Request(c, "POST", c.base_url \o "/send-message",
            SerializeMessage(message), <<>>)

\* mutant: the group operation posts to the single-message path
send_group_message_request_wrong_path(c, message) ==
    Request(c, "POST", c.base_url \o "/send-message",
            SerializeGroupMessage(message), <<>>)

send_group_message_request(c, message) ==
    Request(c, "POST", c.base_url \o "/send-group-message",
            SerializeGroupMessage(message), <<>>)

get_messages_request(c, params) ==
    Request(c, "GET", c.base_url \o "/accounts/messages", "",
            SerializeParams(params))

evaluate_service_request(c, evaluate_service) ==
    Request(c, "GET", c.base_url \o "/evaluate-service", "",
            << <<"number", evaluate_service.number>> >>)

send_typing_indicator_request(c, number) ==
    Request(c, "POST", c.base_url \o "/send-typing-indicator",
            "{\"number\":\"" \o number \o "\"}", <<>>)

----------------------------------------------------------------------------
(* JSON texts.  A JSON value is [t, v, items]: t is its JSON type, v the   *)
(* text of a scalar, items the strings of an array of strings.  A JSON     *)
(* object is the sequence of its [k, j] members in the order of the text.  *)

JStr(s) == [ t |-> "string", v |-> s, items |-> <<>> ]
JNull == [ t |-> "null", v |-> "null", items |-> <<>> ]
JBool(b) == [ t |-> "boolean", v |-> IF b THEN "true" ELSE "false", items |-> <<>> ]
JNum(n) == [ t |-> "integer", v |-> n, items |-> <<>> ]
JArr(ss) == [ t |-> "sequence", v |-> "", items |-> ss ]
Member(k, j) == [ k |-> k, j |-> j ]

RenderValue(j) ==
    IF j.t = "string" THEN "\"" \o j.v \o "\""
    ELSE IF j.t = "sequence" THEN "[" \o JoinQuoted(j.items) \o "]"
    ELSE j.v

RECURSIVE RenderMembers(_)
RenderMembers(ms) ==
    IF Len(ms) = 0 THEN ""
    ELSE "\"" \o ms[1].k \o "\":" \o RenderValue(ms[1].j)
         \o (IF Len(ms) = 1 THEN "" ELSE "," \o RenderMembers(Tail(ms)))

\* the JSON text of an object
RenderJson(ms) == "{" \o RenderMembers(ms) \o "}"

\* the body of test_send_message_success, src/lib.rs:624-646
MessageMembers(send_style) ==
    << Member("accountEmail", JStr("YOUR EMAIL")),
       Member("content", JStr("Hello world!")),
       Member("is_outbound", JBool(TRUE)),
       Member("status", JStr("QUEUED")),
       Member("error_code", JNull),
       Member("error_message", JNull),
       Member("message_handle", JStr("dfd747ba-5600-4a8a-804a-a614a0fbc1c5")),
       Member("date_sent", JStr("2023-09-27T16:35:32.287Z")),
       Member("date_updated", JStr("2023-09-27T16:35:32.703Z")),
       Member("from_number", JStr("+16468528190")),
       Member("number", JStr("+19998887777")),
       Member("to_number", JStr("+19998887777")),
       Member("was_downgraded", JNull),
       Member("plan", JStr("dedicated")),
       Member("media_url", JStr("https://picsum.photos/200/300.jpg")),
       Member("message_type", JStr("message")),
       Member("group_id", JStr("")),
       Member("participants", JArr(<<>>)),
       Member("send_style", JStr(send_style)),
       Member("opted_out", JBool(FALSE)),
       Member("error_detail", JNull) >>

\* the body of test_send_group_message_success, src/lib.rs:740-758
GroupMembers ==
    << Member("accountEmail", JStr("YOUR EMAIL")),
       Member("content", JStr("Hello world")),
       Member("is_outbound", JBool(TRUE)),
       Member("status", JStr("QUEUED")),
       Member("error_code", JNull),
       Member("error_message", JNull),
       Member("message_handle", JStr("073c1408-a6d9-48e2-ae8c-01f06443833")),
       Member("date_sent", JStr("2021-05-19T23:07:23.371Z")),
       Member("date_updated", JStr("2021-05-19T23:07:23.371Z")),
       Member("from_number", JStr("+19998887777")),
       Member("number", JArr(<<"+11112223333", "+13332221111">>)),
       Member("to_number", JArr(<<"+11112223333", "+13332221111">>)),
       Member("was_downgraded", JNull),
       Member("plan", JStr("blue")),
       Member("media_url", JStr("https://picsum.photos/200/300.jpg")),
       Member("message_type", JStr("group")),
       Member("group_id", JStr("66e3b90d-4447-43c6-9439-15a69408ac2")) >>

\* the 400 body of the spec's testable property 6
ErrorMembers ==
    << Member("status", JStr("ERROR")), Member("error_message", JStr("x")) >>

\* the body of test_evaluate_service_success, src/lib.rs:794-797
EvaluateMembers ==
    << Member("number", JStr("+10722971673")), Member("service", JStr("iMessage")) >>

\* the body of test_send_typing_indicator_success, src/lib.rs:825-828
TypingMembers ==
    << Member("number", JStr("+10722971673")), Member("status", JStr("SENT")) >>

\* a message history without messages
MessagesMembers == << Member("messages", JArr(<<>>)) >>

\* the JSON objects a response body can hold
\* the JSON values an error_code member can hold: the seven modelled codes
\* and an unmodelled one as strings, codes as numbers (as in the body of
\* test_get_messages_success, src/lib.rs:709), and null
ErrorCodeTokens ==
    { JStr(t) : t \in { "4000", "4001", "4002", "5000", "5003", "10001", "10002",
                        "9999" } }
    \cup { JNum("4000"), JNum("22"), JNull }

\* the body of test_send_message_success with another error_code
MessageMembersWith(error_code, send_style) ==
    [ MessageMembers(send_style) EXCEPT ![5] = Member("error_code", error_code) ]

\* the JSON objects a response body can hold
JsonObjects ==
    { MessageMembers("invisible"), MessageMembers("Invisible"), GroupMembers,
      ErrorMembers, EvaluateMembers, TypingMembers, MessagesMembers }
    \cup { MessageMembersWith(t, "Invisible") : t \in ErrorCodeTokens }

MESSAGE_BODY == RenderJson(MessageMembers("invisible"))
MESSAGE_BODY_VARIANT_NAME == RenderJson(MessageMembers("Invisible"))
GROUP_BODY == RenderJson(GroupMembers)
ERROR_BODY == RenderJson(ErrorMembers)
EMPTY_BODY == ""
HTML_BODY == "<html>502 Bad Gateway</html>"

\* the response bodies the server answers with
Bodies ==
    { RenderJson(o) : o \in JsonObjects } \cup { EMPTY_BODY, HTML_BODY }

\* serde_json's reading of a text: the object whose text it is, or the
\* syntax error (without its line and column)
JsonParse(text) ==
    IF \E o \in JsonObjects : RenderJson(o) = text
    THEN [ ok |-> TRUE, members |-> CHOOSE o \in JsonObjects : RenderJson(o) = text,
           diag |-> "" ]
    ELSE [ ok |-> FALSE, members |-> <<>>,
           diag |-> IF text = "" THEN "EOF while parsing a value"
                    ELSE "expected value" ]

----------------------------------------------------------------------------
(* Decoding a JSON object into a response record, as serde's derived       *)
(* Deserialize does it.                                                    *)

Char(s, i) == SubSeq(s, i, i)
Digits == { "0", "1", "2", "3", "4", "5", "6", "7", "8", "9" }

\* phonenumber::parse(None, s): without a default country the number must be
\* international ("+", a country code of 1 to 3 digits that does not start
\* with 0) and its national number 2 to 17 digits long
phone_parse_ok(s) ==
    /\ Len(s) - 1 \in 3..20
    /\ Char(s, 1) = "+"
    /\ Char(s, 2) # "0"
    /\ \A i \in 2..Len(s) : Char(s, i) \in Digits

\* chrono's DateTime<Utc> from an RFC 3339 text "YYYY-MM-DDTHH:MM:SS[.fff]Z"
datetime_parse_ok(s) ==
    /\ Len(s) >= 20
    /\ Char(s, 5) = "-" /\ Char(s, 8) = "-" /\ Char(s, 11) = "T"
    /\ Char(s, 14) = ":" /\ Char(s, 17) = ":"
    /\ Char(s, Len(s)) = "Z"
    /\ \A i \in { 1, 2, 3, 4, 6, 7, 9, 10, 12, 13, 15, 16, 18, 19 } :
           Char(s, i) \in Digits

\* Status and its wire tokens (rename_all = "SCREAMING_SNAKE_CASE"):
\* src/models/status.rs
Status ==
    [ QUEUED |-> "Queued", FAILED |-> "Failed", SENT |-> "Sent",
      DELIVERED |-> "Delivered", READ |-> "Read" ]

\* ErrorCode and its wire tokens; every other token is Unknown (serde(other))
ErrorCode ==
    ("4000" :> "ValidationError") @@ ("4001" :> "RateLimitExceeded")
    @@ ("4002" :> "BlacklistedNumber") @@ ("5000" :> "InternalError")
    @@ ("5003" :> "ServerRateExceeded") @@ ("10001" :> "MessageFailedToSend")
    @@ ("10002" :> "FailedToResolveMessageStatus")

\* TypingIndicatorStatus (rename_all = "UPPERCASE")
TypingIndicatorStatus == [ SENT |-> "Sent", ERROR |-> "Error" ]

\* EvaluateServiceType (rename_all = "camelCase")
EvaluateServiceType == [ iMessage |-> "IMessage", sMS |-> "SMS" ]

Field(name, ty, opt) == [ name |-> name, ty |-> ty, opt |-> opt ]

\* struct MessageResponse, src/models/message.rs
MessageResponse ==
    << Field("accountEmail", "String", FALSE),
       Field("content", "String", FALSE),
       Field("is_outbound", "bool", FALSE),
       Field("status", "Status", FALSE),
       Field("error_code", "ErrorCode", TRUE),
       Field("error_message", "String", TRUE),
       Field("message_handle", "String", FALSE),
       Field("date_sent", "DateTime", FALSE),
       Field("date_updated", "DateTime", FALSE),
       Field("from_number", "PhoneNumber", FALSE),
       Field("number", "PhoneNumber", FALSE),
       Field("to_number", "PhoneNumber", FALSE),
       Field("was_downgraded", "bool", TRUE),
       Field("plan", "String", TRUE),
       Field("media_url", "String", FALSE),
       Field("message_type", "String", TRUE),
       Field("group_id", "String", TRUE),
       Field("participants", "Vec<String>", TRUE),
       Field("send_style", "SendStyle", FALSE),
       Field("opted_out", "bool", FALSE),
       Field("error_detail", "String", TRUE) >>

\* struct GroupMessageResponse, src/models/message.rs
GroupMessageResponse ==
    << Field("accountEmail", "String", FALSE),
       Field("content", "String", FALSE),
       Field("is_outbound", "bool", FALSE),
       Field("status", "Status", FALSE),
       Field("error_code", "i32", TRUE),
       Field("error_message", "String", TRUE),
       Field("message_handle", "String", FALSE),
       Field("date_sent", "DateTime", FALSE),
       Field("date_updated", "DateTime", FALSE),
       Field("from_number", "PhoneNumber", FALSE),
       Field("number", "Vec<PhoneNumber>", FALSE),
       Field("to_number", "Vec<PhoneNumber>", FALSE),
       Field("was_downgraded", "bool", TRUE),
       Field("plan", "String", FALSE),
       Field("media_url", "String", FALSE),
       Field("message_type", "String", FALSE),
       Field("group_id", "String", FALSE) >>

\* struct GetMessagesResponse, src/models/message.rs
GetMessagesResponse == << Field("messages", "Vec<RetrievedMessage>", FALSE) >>

\* struct EvaluateServiceResponse, src/model/evaluate_service.rs
EvaluateServiceResponse ==
    << Field("number", "PhoneNumber", FALSE),
       Field("service", "EvaluateServiceType", FALSE) >>

\* struct TypingIndicatorResponse, src/model/typing_indicator.rs
TypingIndicatorResponse ==
    << Field("number", "PhoneNumber", FALSE),
       Field("status", "TypingIndicatorStatus", FALSE),
       Field("error_message", "String", TRUE) >>

ResponseTypes ==
    { "MessageResponse", "GroupMessageResponse", "GetMessagesResponse",
      "EvaluateServiceResponse", "TypingIndicatorResponse" }

Schema(T) ==
    CASE T = "MessageResponse" -> MessageResponse
      [] T = "GroupMessageResponse" -> GroupMessageResponse
      [] T = "GetMessagesResponse" -> GetMessagesResponse
      [] T = "EvaluateServiceResponse" -> EvaluateServiceResponse
      [] T = "TypingIndicatorResponse" -> TypingIndicatorResponse

InvalidType(j, ty) == "invalid type: " \o j.t \o ", expected " \o ty
UnknownVariant(v) == "unknown variant '" \o v \o "'"

\* the error of deserializing the JSON value j as the type ty; "" when it succeeds
TypeError(ty, j) ==
    CASE ty = "String" -> IF j.t = "string" THEN "" ELSE InvalidType(j, ty)
      [] ty = "bool" -> IF j.t = "boolean" THEN "" ELSE InvalidType(j, ty)
      [] ty = "i32" -> IF j.t = "integer" THEN "" ELSE InvalidType(j, ty)
      [] ty = "Status" ->
            IF j.t # "string" THEN InvalidType(j, ty)
            ELSE IF j.v \in DOMAIN Status THEN "" ELSE UnknownVariant(j.v)
      [] ty = "ErrorCode" -> IF j.t = "string" THEN "" ELSE InvalidType(j, ty)
      [] ty = "SendStyle" ->
            IF j.t # "string" THEN InvalidType(j, ty)
            ELSE IF j.v \in SendStyle THEN "" ELSE UnknownVariant(j.v)
      [] ty = "TypingIndicatorStatus" ->
            IF j.t # "string" THEN InvalidType(j, ty)
            ELSE IF j.v \in DOMAIN TypingIndicatorStatus THEN ""
            ELSE UnknownVariant(j.v)
      [] ty = "EvaluateServiceType" ->
            IF j.t # "string" THEN InvalidType(j, ty)
            ELSE IF j.v \in DOMAIN EvaluateServiceType THEN ""
            ELSE UnknownVariant(j.v)
      [] ty = "DateTime" ->
            IF j.t # "string" THEN InvalidType(j, ty)
            ELSE IF datetime_parse_ok(j.v) THEN "" ELSE "input is not a date"
      [] ty = "PhoneNumber" ->
            IF j.t # "string" THEN InvalidType(j, ty)
            ELSE IF phone_parse_ok(j.v) THEN "" ELSE "not a number"
      [] ty = "Vec<String>" -> IF j.t = "sequence" THEN "" ELSE InvalidType(j, ty)
      [] ty = "Vec<PhoneNumber>" ->
            IF j.t # "sequence" THEN InvalidType(j, ty)
            ELSE IF \A i \in 1..Len(j.items) : phone_parse_ok(j.items[i]) THEN ""
            ELSE "not a number"
      [] ty = "Vec<RetrievedMessage>" ->
            IF j.t # "sequence" THEN InvalidType(j, ty)
            ELSE IF Len(j.items) = 0 THEN ""
            ELSE "invalid type: string, expected struct RetrievedMessage"

\* the value of type ty that the JSON value j deserializes to
TypeValue(ty, j) ==
    CASE ty = "Status" -> Status[j.v]
      [] ty = "ErrorCode" ->
            IF j.v \in DOMAIN ErrorCode THEN ErrorCode[j.v] ELSE "Unknown"
      [] ty = "TypingIndicatorStatus" -> TypingIndicatorStatus[j.v]
      [] ty = "EvaluateServiceType" -> EvaluateServiceType[j.v]
      [] ty \in { "Vec<String>", "Vec<PhoneNumber>", "Vec<RetrievedMessage>" } ->
            j.items
      [] OTHER -> j.v

\* Option<ty>: null is None
FieldError(f, j) ==
    IF f.opt /\ j.t = "null" THEN "" ELSE TypeError(f.ty, j)

FieldValue(f, j) ==
    IF f.opt
    THEN (IF j.t = "null" THEN None ELSE Some(TypeValue(f.ty, j)))
    ELSE TypeValue(f.ty, j)

FieldNames(schema) == { schema[i].name : i \in 1..Len(schema) }
FieldOf(schema, k) == schema[CHOOSE i \in 1..Len(schema) : schema[i].name = k]
Keys(members) == { members[i].k : i \in 1..Len(members) }
MemberOf(members, k) == members[CHOOSE i \in 1..Len(members) : members[i].k = k].j

\* the members, in the order of the text, that fail to deserialize;
\* members the struct does not name are ignored
BadMembers(schema, members) ==
    { i \in 1..Len(members) :
        /\ members[i].k \in FieldNames(schema)
        /\ FieldError(FieldOf(schema, members[i].k), members[i].j) # "" }

\* the required fields, in declaration order, that the text lacks
MissingFields(schema, members) ==
    { i \in 1..Len(schema) :
        /\ ~ schema[i].opt
        /\ schema[i].name \notin Keys(members) }

Min(S) == CHOOSE x \in S : \A y \in S : x <= y

\* the derived Deserialize of a struct: the first failing member stops the
\* decoding, then the first missing required field does
DeserializeStruct(schema, members) ==
    IF BadMembers(schema, members) # {}
    THEN LET i == Min(BadMembers(schema, members))
         IN [ ok |-> FALSE, value |-> <<>>,
              diag |-> FieldError(FieldOf(schema, members[i].k), members[i].j) ]
    ELSE IF MissingFields(schema, members) # {}
    THEN [ ok |-> FALSE, value |-> <<>>,
           diag |-> "missing field '"
                    \o schema[Min(MissingFields(schema, members))].name \o "'" ]
    ELSE [ ok |-> TRUE,
           value |-> [ k \in FieldNames(schema) |->
                        IF k \in Keys(members)
                        THEN FieldValue(FieldOf(schema, k), MemberOf(members, k))
                        ELSE None ],
           diag |-> "" ]

\* serde_json::from_str::<T>(text)
from_str(T, text) ==
    LET parsed == JsonParse(text)
    IN IF parsed.ok THEN DeserializeStruct(Schema(T), parsed.members)
       ELSE [ ok |-> FALSE, value |-> <<>>, diag |-> parsed.diag ]

----------------------------------------------------------------------------
(* Results and errors: src/error.rs SendblueError *)

Ok(v) == [ tag |-> "Ok", text |-> "", value |-> v ]
Err(variant, text) == [ tag |-> variant, text |-> text, value |-> <<>> ]
NoResult == [ tag |-> "none", text |-> "", value |-> <<>> ]

SendblueError == { "BadRequest", "Unknown", "ValidationError", "ReqwestError" }

----------------------------------------------------------------------------
(* The response and its classification: src/lib.rs Client::process_response *)

OK == 200
ACCEPTED == 202
BAD_REQUEST == 400

\* the statuses the server answers with
Statuses == { 200, 201, 202, 204, 301, 400, 404, 500 }

NoResponse == [ status |-> 0, body |-> "", text_ok |-> TRUE ]

\* mutant: the body is used although reading it failed
response_text_despite_failure(response) == response.body

\* response.text().await.unwrap_or_default(): the body, or "" when reading it fails
response_text(response) == IF response.text_ok THEN response.body ELSE ""

DECODE_PREFIX == "Failed to decode response: "

\* mutant: a body that does not decode is swallowed into an empty success
decode_arm_swallow(T, text) ==
    LET r == from_str(T, text)
    IN Ok(r.value)

\* mutant: the decode failure carries the body instead of the diagnostic
decode_arm_body(T, text) ==
    LET r == from_str(T, text)
    IN IF r.ok THEN Ok(r.value) ELSE Err("Unknown", text)

\* StatusCode::OK | StatusCode::ACCEPTED
decode_arm(T, text) ==
    LET r == from_str(T, text)
    IN IF r.ok THEN Ok(r.value) ELSE Err("Unknown", DECODE_PREFIX \o r.diag)

\* mutant: the 400 body goes through the decoder like a success body
bad_request_arm_decoded(T, text) ==
    LET r == from_str(T, text)
    IN IF r.ok THEN Ok(r.value) ELSE Err("BadRequest", DECODE_PREFIX \o r.diag)

\* StatusCode::BAD_REQUEST
bad_request_arm(T, text) == Err("BadRequest", text)

\* every other status
other_arm(T, text) == Err("Unknown", text)

\* mutant: the whole 2xx family is taken for success
process_response_2xx(T, response) ==
    LET status == response.status
        text == response_text(response)
    IN IF status \in 200..299 THEN decode_arm(T, text)
       ELSE IF status = BAD_REQUEST THEN bad_request_arm(T, text)
       ELSE other_arm(T, text)

process_response(T, response) ==
    LET status == response.status
        text == response_text(response)
    IN IF status \in { OK, ACCEPTED } THEN decode_arm(T, text)
       ELSE IF status = BAD_REQUEST THEN bad_request_arm(T, text)
       ELSE other_arm(T, text)

----------------------------------------------------------------------------
(* The client operations: src/lib.rs *)

NoCall == [ op |-> "none", T |-> "", R |-> "", arg |-> <<>> ]

\* mutant: a request is issued a second time
RequestBuilder_send_twice(n) == n + 2

\* RequestBuilder::send: the one place a request leaves the client
RequestBuilder_send(n) == n + 1

\* the part every operation shares up to its await: one request is issued
Issue(op, T, R, arg, request) ==
    /\ pc = "idle"
    /\ calls < MaxCalls
    /\ calls' = calls + 1
    /\ call' = [ op |-> op, T |-> T, R |-> R, arg |-> arg ]
    /\ wire' = Some(request)
    /\ hits' = RequestBuilder_send(hits)
    /\ pc' = "awaiting"
    /\ resp' = NoResponse
    /\ result' = NoResult
    /\ UNCHANGED <<client, builder, built, passed, proc, vo, otherVars>>

send(T, message) ==
    Issue("send", T, ResponseType(T), message, send_request(client, T, message))

send_message(message) ==
    Issue("send_message", "Message", "MessageResponse", message,
          send_message_request(client, message))

send_group_message(message) ==
    Issue("send_group_message", "GroupMessage", "GroupMessageResponse", message,
          send_group_message_request(client, message))

get_messages(params) ==
    Issue("get_messages", "", "GetMessagesResponse", params,
          get_messages_request(client, params))

evaluate_service(es) ==
    Issue("evaluate_service", "", "EvaluateServiceResponse", es,
          evaluate_service_request(client, es))

send_typing_indicator(number) ==
    Issue("send_typing_indicator", "", "TypingIndicatorResponse", number,
          send_typing_indicator_request(client, number))

\* mutant: the transport failure is reported as a rejected request
transport_error_as_bad_request ==
    /\ pc = "awaiting"
    /\ result' = Err("BadRequest", "")
    /\ pc' = "idle"
    /\ UNCHANGED <<client, call, wire, hits, calls, resp, builder, built, passed, proc, vo, otherVars>>

\* .send().await? fails: the transport error is returned, no response exists
transport_error ==
    /\ pc = "awaiting"
    /\ result' = Err("ReqwestError", "")
    /\ pc' = "idle"
    /\ UNCHANGED <<client, call, wire, hits, calls, resp, builder, built, passed, proc, vo, otherVars>>

\* .send().await? succeeds with a response, which process_response turns
\* into the operation's result
receive(status, body, text_ok) ==
    /\ pc = "awaiting"
    /\ resp' = [ status |-> status, body |-> body, text_ok |-> text_ok ]
    /\ result' = process_response(call.R, resp')
    /\ pc' = "idle"
    /\ UNCHANGED <<client, call, wire, hits, calls, builder, built, passed, proc, vo, otherVars>>

----------------------------------------------------------------------------
(* MessageBuilder<T>: src/models/message.rs *)

\* sequences over S of length at most n
RECURSIVE SeqsUpTo(_, _)
SeqsUpTo(S, n) ==
    IF n = 0 THEN { <<>> }
    ELSE SeqsUpTo(S, n - 1)
         \cup { Append(q, x) : q \in { r \in SeqsUpTo(S, n - 1) : Len(r) = n - 1 },
                               x \in S }

NumbersLists == SeqsUpTo(PhoneNumbers, MaxNumbers)
GroupIds == { "group_id", "" }
Contents == { "", "Hello group!" }
MediaUrls == { "https://example.com/media.jpg" }
CallbackUrls == { "https://example.com/message-status/1234abcd" }
SendStyles == { "Invisible", "Default" }

\* the history of a builder no setter has been called on
FieldNames_all ==
    { "numbers", "group_id", "content", "media_url", "status_callback",
      "send_style", "cid", "number", "limit", "offset", "from_date" }

NoPassed == [ f \in FieldNames_all |-> None ]

new_group_value ==
    [ live |-> TRUE,
      T |-> "GroupMessage",
      message |-> None,
      group_message |-> Some([ numbers |-> None, group_id |-> None,
                               content |-> None, media_url |-> None,
                               send_style |-> None, status_callback |-> None ]) ]

\* mutant: a setter also clears the send style
SetField_clears_style(b, field, v) ==
    IF is_some(b.group_message)
    THEN [ b EXCEPT !.group_message =
             Some([ [ unwrap(@) EXCEPT ![field] = Some(v) ]
                    EXCEPT !.send_style = IF field = "send_style" THEN Some(v) ELSE None ]) ]
    ELSE b

\* a setter: assigns one field when group_message is Some
SetField(b, field, v) ==
    IF is_some(b.group_message)
    THEN [ b EXCEPT !.group_message = Some([ unwrap(@) EXCEPT ![field] = Some(v) ]) ]
    ELSE b

\* mutant: the length rule on content is not applied
validate_any_length(msg) ==
    Ok(msg)

\* #[validate(length(min = 1))] on content
validate(msg) ==
    IF is_some(msg.content) /\ Len(unwrap(msg.content)) < 1
    THEN Err("ValidationError", "content: Validation error: length")
    ELSE Ok(msg)

NUMBERS_OR_GROUP == "Either numbers or group_id must be provided"
CONTENT_OR_MEDIA == "Either content or media_url must be provided"

\* mutant: the content-or-media rule is checked before the recipients rule
build_group_content_first(b) ==
    IF is_some(b.group_message)
    THEN LET grp_msg == unwrap(b.group_message)
         IN IF is_none(grp_msg.content) /\ is_none(grp_msg.media_url)
            THEN Err("ValidationError", CONTENT_OR_MEDIA)
            ELSE IF /\ (is_none(grp_msg.numbers) \/ Len(unwrap(grp_msg.numbers)) = 0)
                    /\ is_none(grp_msg.group_id)
            THEN Err("ValidationError", NUMBERS_OR_GROUP)
            ELSE validate(grp_msg)
    ELSE Err("ValidationError", "GroupMessage not initialized")

\* mutant: the content-or-media rule is left out
build_group_no_content_rule(b) ==
    IF is_some(b.group_message)
    THEN LET grp_msg == unwrap(b.group_message)
         IN IF /\ (is_none(grp_msg.numbers) \/ Len(unwrap(grp_msg.numbers)) = 0)
               /\ is_none(grp_msg.group_id)
            THEN Err("ValidationError", NUMBERS_OR_GROUP)
            ELSE validate(grp_msg)
    ELSE Err("ValidationError", "GroupMessage not initialized")

\* mutant: an empty numbers list counts as recipients
build_group_empty_numbers(b) ==
    IF is_some(b.group_message)
    THEN LET grp_msg == unwrap(b.group_message)
         IN IF is_none(grp_msg.numbers) /\ is_none(grp_msg.group_id)
            THEN Err("ValidationError", NUMBERS_OR_GROUP)
            ELSE IF is_none(grp_msg.content) /\ is_none(grp_msg.media_url)
            THEN Err("ValidationError", CONTENT_OR_MEDIA)
            ELSE validate(grp_msg)
    ELSE Err("ValidationError", "GroupMessage not initialized")

\* MessageBuilder<GroupMessage>::build
build_group(b) ==
    IF is_some(b.group_message)
    THEN LET grp_msg == unwrap(b.group_message)
         IN IF /\ (is_none(grp_msg.numbers) \/ Len(unwrap(grp_msg.numbers)) = 0)
               /\ is_none(grp_msg.group_id)
            THEN Err("ValidationError", NUMBERS_OR_GROUP)
            ELSE IF is_none(grp_msg.content) /\ is_none(grp_msg.media_url)
            THEN Err("ValidationError", CONTENT_OR_MEDIA)
            ELSE validate(grp_msg)
    ELSE Err("ValidationError", "GroupMessage not initialized")

\* a setter call: the builder it returns, and the history of what was passed
BuilderStep(T, b, field, v) ==
    /\ builder.live
    /\ builder.T = T
    /\ builder' = b
    /\ passed' = [ passed EXCEPT ![field] = Some(v) ]
    /\ UNCHANGED <<built, client, pc, call, wire, hits, calls, resp, result, proc, vo, otherVars>>

new_group ==
    /\ ~ builder.live
    /\ builder' = new_group_value
    /\ built' = NoResult
    /\ passed' = NoPassed
    /\ UNCHANGED <<clientVars, restVars>>

numbers(ns) == BuilderStep("GroupMessage", SetField(builder, "numbers", ns), "numbers", ns)
group_id(g) == BuilderStep("GroupMessage", SetField(builder, "group_id", g), "group_id", g)
content(c) == BuilderStep("GroupMessage", SetField(builder, "content", c), "content", c)
media_url(u) == BuilderStep("GroupMessage", SetField(builder, "media_url", u), "media_url", u)
status_callback(u) ==
    BuilderStep("GroupMessage", SetField(builder, "status_callback", u),
                "status_callback", u)
send_style(s) == BuilderStep("GroupMessage", SetField(builder, "send_style", s), "send_style", s)

\* build(self): the builder is moved into the call and cannot be used again;
\* its fields stay on record as the value build was called on
build ==
    /\ builder.live
    /\ builder.T = "GroupMessage"
    /\ built' = build_group(builder)
    /\ builder' = [ builder EXCEPT !.live = FALSE ]
    /\ UNCHANGED <<passed, clientVars, restVars>>

----------------------------------------------------------------------------
(* MessageBuilder<Message>: src/models/message.rs *)

\* mutant: the builder starts without a message
new_value_uninitialized(number) ==
    [ live |-> TRUE, T |-> "Message", message |-> None, group_message |-> None ]

\* MessageBuilder::new(number)
new_value(number) ==
    [ live |-> TRUE,
      T |-> "Message",
      message |-> Some([ number |-> number, content |-> None, media_url |-> None,
                         status_callback |-> None, send_style |-> None ]),
      group_message |-> None ]

\* a setter: assigns one field when message is Some
SetMessageField(b, field, v) ==
    IF is_some(b.message)
    THEN [ b EXCEPT !.message = Some([ unwrap(@) EXCEPT ![field] = Some(v) ]) ]
    ELSE b

\* mutant: the single-message builder applies the content-or-media rule
build_message_content_rule(b) ==
    IF is_some(b.message)
    THEN IF is_none(unwrap(b.message).content) /\ is_none(unwrap(b.message).media_url)
         THEN Err("ValidationError", CONTENT_OR_MEDIA)
         ELSE validate(unwrap(b.message))
    ELSE Err("ValidationError", "Message not initialized")

\* MessageBuilder<Message>::build
build_message(b) ==
    IF is_some(b.message)
    THEN validate(unwrap(b.message))
    ELSE Err("ValidationError", "Message not initialized")

new(number) ==
    /\ ~ builder.live
    /\ builder' = new_value(number)
    /\ built' = NoResult
    /\ passed' = [ NoPassed EXCEPT !.number = Some(number) ]
    /\ UNCHANGED <<clientVars, restVars>>

Message_content(c) ==
    BuilderStep("Message", SetMessageField(builder, "content", c), "content", c)
Message_media_url(u) ==
    BuilderStep("Message", SetMessageField(builder, "media_url", u), "media_url", u)
Message_status_callback(u) ==
    BuilderStep("Message", SetMessageField(builder, "status_callback", u),
                "status_callback", u)
Message_send_style(s) ==
    BuilderStep("Message", SetMessageField(builder, "send_style", s), "send_style", s)

Message_build ==
    /\ builder.live
    /\ builder.T = "Message"
    /\ built' = build_message(builder)
    /\ builder' = [ builder EXCEPT !.live = FALSE ]
    /\ UNCHANGED <<passed, clientVars, restVars>>

----------------------------------------------------------------------------
(* GetMessagesParamsBuilder: src/models/message.rs *)

Cids == { "contact_id" }
Limits == { "50" }
Offsets == { "0" }
FromDates == { "2023-06-15 12:00:00" }

\* the Option<T> arguments of the setters
OptionOf(S) == { None } \cup { Some(x) : x \in S }

\* GetMessagesParamsBuilder::new()
params_new_value ==
    [ live |-> TRUE,
      T |-> "GetMessagesParams",
      params |-> [ cid |-> None, number |-> None, limit |-> None,
                   offset |-> None, from_date |-> None ] ]

\* a setter: self.field = argument
SetParam(b, field, o) == [ b EXCEPT !.params[field] = o ]

\* GetMessagesParamsBuilder::build: returns the record itself, it cannot fail
build_params(b) == Ok(b.params)

GetMessagesParamsBuilder_new ==
    /\ ~ builder.live
    /\ builder' = params_new_value
    /\ built' = NoResult
    /\ passed' = NoPassed
    /\ UNCHANGED <<clientVars, restVars>>

Params_cid(o) == BuilderStep("GetMessagesParams", SetParam(builder, "cid", o), "cid", o)
Params_number(o) == BuilderStep("GetMessagesParams", SetParam(builder, "number", o), "number", o)
Params_limit(o) == BuilderStep("GetMessagesParams", SetParam(builder, "limit", o), "limit", o)
Params_offset(o) == BuilderStep("GetMessagesParams", SetParam(builder, "offset", o), "offset", o)
Params_from_date(o) ==
    BuilderStep("GetMessagesParams", SetParam(builder, "from_date", o), "from_date", o)

GetMessagesParamsBuilder_build ==
    /\ builder.live
    /\ builder.T = "GetMessagesParams"
    /\ built' = build_params(builder)
    /\ builder' = [ builder EXCEPT !.live = FALSE ]
    /\ UNCHANGED <<passed, clientVars, restVars>>

----------------------------------------------------------------------------
(* The process: environment variables, and termination by a panic *)

NoEnv == [ SB_API_KEY |-> None, SB_API_SECRET |-> None ]

Running(env) == [ panicked |-> FALSE, panic |-> "", env |-> env ]

NoProcess == Running(NoEnv)

\* panic!(message): the process is terminated, nothing is returned
Panic(message) == [ proc EXCEPT !.panicked = TRUE, !.panic = message ]

----------------------------------------------------------------------------
(* Construction of the Client: src/lib.rs Client::new, Client::from_env *)

\* the strings a caller or the environment can supply as key and secret
KeyInputs == { "test_key", "key2", "bad\nkey" }
SecretInputs == { "test_secret", "secret2", "bad\nsecret" }

\* the environments a process can start in
Envs ==
    { [ SB_API_KEY |-> k, SB_API_SECRET |-> x ] :
        k \in { None } \cup { Some(v) : v \in { "test_key", "bad\nkey" } },
        x \in { None } \cup { Some(v) : v \in { "test_secret", "bad\nsecret" } } }

\* the state before a Client has been constructed
NoClient ==
    [ api_key    |-> "",
      api_secret |-> "",
      headers    |-> (KEY_HEADER :> "") @@ (SECRET_HEADER :> ""),
      base_url   |-> "" ]

\* HeaderValue::from_str(s): control characters other than tab are refused
header_value_ok(s) ==
    \A i \in 1..Len(s) : Char(s, i) \notin { "\n", "\r" }

\* the panic Client::new runs into, "" when it returns
Client_new_panic(api_key, api_secret) ==
    IF ~ header_value_ok(api_key)
    THEN "Invalid API key: failed to parse header value"
    ELSE IF ~ header_value_ok(api_secret)
    THEN "Invalid API secret: failed to parse header value"
    ELSE ""

\* a call of Client::new(api_key, api_secret)
Client_new_call(api_key, api_secret) ==
    /\ ~ proc.panicked
    /\ client = NoClient
    /\ IF Client_new_panic(api_key, api_secret) # ""
       THEN /\ proc' = Panic(Client_new_panic(api_key, api_secret))
            /\ UNCHANGED client
       ELSE /\ client' = Client_new(api_key, api_secret)
            /\ UNCHANGED proc
    /\ UNCHANGED <<pc, call, wire, hits, calls, resp, result, builderVars, vo, otherVars>>

\* a call of Client::from_env()
from_env ==
    /\ ~ proc.panicked
    /\ client = NoClient
    /\ IF is_none(proc.env.SB_API_KEY)
       THEN /\ proc' = Panic("Environment variable SB_API_KEY is not set")
            /\ UNCHANGED client
       ELSE IF is_none(proc.env.SB_API_SECRET)
       THEN /\ proc' = Panic("Environment variable SB_API_SECRET is not set")
            /\ UNCHANGED client
       ELSE LET api_key == unwrap(proc.env.SB_API_KEY)
                api_secret == unwrap(proc.env.SB_API_SECRET)
            IN IF Client_new_panic(api_key, api_secret) # ""
               THEN /\ proc' = Panic(Client_new_panic(api_key, api_secret))
                    /\ UNCHANGED client
               ELSE /\ client' = Client_new(api_key, api_secret)
                    /\ UNCHANGED proc
    /\ UNCHANGED <<pc, call, wire, hits, calls, resp, result, builderVars, vo, otherVars>>

----------------------------------------------------------------------------
(* EvaluateServiceBuilder: src/models/evaluate_service.rs *)

\* EvaluateServiceBuilder::new()
evaluate_new_value ==
    [ live |-> TRUE, T |-> "EvaluateService", number |-> None ]

EvaluateServiceBuilder_new ==
    /\ ~ proc.panicked
    /\ ~ builder.live
    /\ builder' = evaluate_new_value
    /\ built' = NoResult
    /\ passed' = NoPassed
    /\ UNCHANGED <<clientVars, restVars>>

EvaluateServiceBuilder_number(n) ==
    /\ ~ proc.panicked
    /\ BuilderStep("EvaluateService", [ builder EXCEPT !.number = Some(n) ], "number", n)

\* build(self): self.number.expect("Number is required")
EvaluateServiceBuilder_build ==
    /\ ~ proc.panicked
    /\ builder.live
    /\ builder.T = "EvaluateService"
    /\ builder' = [ builder EXCEPT !.live = FALSE ]
    /\ IF is_none(builder.number)
       THEN /\ proc' = Panic("Number is required")
            /\ UNCHANGED built
       ELSE /\ built' = Ok([ number |-> unwrap(builder.number) ])
            /\ UNCHANGED proc
    /\ UNCHANGED <<passed, clientVars, vo, otherVars>>

----------------------------------------------------------------------------
(* url::Url, as far as the value objects use it: parse, path, as_str *)

UPPERCASE == "ABCDEFGHIJKLMNOPQRSTUVWXYZ"
LOWERCASE == "abcdefghijklmnopqrstuvwxyz"

\* the characters of a string, as a set
Chars(s) == { Char(s, i) : i \in 1..Len(s) }

\* the first position from 'from' on that holds one of the characters,
\* Len(s) + 1 when there is none
Find(s, set, from) ==
    Min({ i \in from..Len(s) : Char(s, i) \in set } \cup { Len(s) + 1 })

\* the position where sub starts in s, Len(s) + 1 when it does not occur
FindSub(s, sub) ==
    Min({ i \in 1..(Len(s) - Len(sub) + 1) : SubSeq(s, i, i + Len(sub) - 1) = sub }
        \cup { Len(s) + 1 })

ends_with(s, suffix) ==
    /\ Len(s) >= Len(suffix)
    /\ SubSeq(s, Len(s) - Len(suffix) + 1, Len(s)) = suffix

to_ascii_lowercase_char(c) ==
    IF c \in Chars(UPPERCASE)
    THEN Char(LOWERCASE, Find(UPPERCASE, { c }, 1))
    ELSE c

RECURSIVE to_ascii_lowercase(_)
to_ascii_lowercase(s) ==
    IF Len(s) = 0 THEN ""
    ELSE to_ascii_lowercase_char(Char(s, 1)) \o to_ascii_lowercase(SubSeq(s, 2, Len(s)))

\* the schemes with a host and a default port
SpecialSchemes == { "http", "https", "ws", "wss", "ftp" }

DefaultPort ==
    ("http" :> "80") @@ ("https" :> "443") @@ ("ws" :> "80") @@ ("wss" :> "443")
    @@ ("ftp" :> "21")

\* a scheme: a letter, then letters, digits, "+", "-", "."
scheme_ok(s) ==
    /\ Len(s) >= 1
    /\ Char(s, 1) \in Chars(UPPERCASE) \cup Chars(LOWERCASE)
    /\ Chars(s) \subseteq Chars(UPPERCASE) \cup Chars(LOWERCASE) \cup Digits
                         \cup { "+", "-", "." }

ParseError(text) == Err("ParseError", text)

\* query and fragment of the text that follows the path, from position p on
QueryOf(rest, p) ==
    IF p <= Len(rest) /\ Char(rest, p) = "?"
    THEN Some(SubSeq(rest, p + 1, Find(rest, { "#" }, p) - 1))
    ELSE None

FragmentOf(rest, p) ==
    IF Find(rest, { "#" }, p) <= Len(rest)
    THEN Some(SubSeq(rest, Find(rest, { "#" }, p) + 1, Len(rest)))
    ELSE None

\* a URL of a special scheme: slashes, host, optional port, path, query, fragment
parse_special(scheme, rest) ==
    LET start == Min({ i \in 1..Len(rest) : Char(rest, i) \notin { "/", "\\" } }
                     \cup { Len(rest) + 1 })
        hostEnd == Find(rest, { "/", "\\", "?", "#" }, start)
        authority == SubSeq(rest, start, hostEnd - 1)
        colon == Find(authority, { ":" }, 1)
        host == to_ascii_lowercase(SubSeq(authority, 1, colon - 1))
        portText == SubSeq(authority, colon + 1, Len(authority))
        pathEnd == Find(rest, { "?", "#" }, hostEnd)
        rawPath == SubSeq(rest, hostEnd, pathEnd - 1)
    IN IF Len(host) = 0
       THEN ParseError("empty host")
       ELSE IF Chars(host) \cap { " ", "<", ">", "^", "|", "%" } # {}
       THEN ParseError("invalid international domain name")
       ELSE IF ~ (Chars(portText) \subseteq Digits)
       THEN ParseError("invalid port number")
       ELSE Ok([ scheme |-> scheme,
                 host |-> Some(host),
                 port |-> IF Len(portText) = 0 \/ portText = DefaultPort[scheme]
                          THEN None ELSE Some(portText),
                 path |-> IF Len(rawPath) = 0 THEN "/" ELSE rawPath,
                 query |-> QueryOf(rest, pathEnd),
                 fragment |-> FragmentOf(rest, pathEnd) ])

\* a URL of another scheme without authority: the path is the opaque text up
\* to the query or the fragment
parse_opaque(scheme, rest) ==
    LET pathEnd == Find(rest, { "?", "#" }, 1)
    IN Ok([ scheme |-> scheme,
            host |-> None,
            port |-> None,
            path |-> SubSeq(rest, 1, pathEnd - 1),
            query |-> QueryOf(rest, pathEnd),
            fragment |-> FragmentOf(rest, pathEnd) ])

\* RawUrl::parse(input): an absolute URL, or a parse error
RawUrl_parse(input) ==
    LET colon == Find(input, { ":" }, 1)
        scheme == SubSeq(input, 1, colon - 1)
        rest == SubSeq(input, colon + 1, Len(input))
    IN IF colon > Len(input) \/ ~ scheme_ok(scheme)
       THEN ParseError("relative URL without a base")
       ELSE IF to_ascii_lowercase(scheme) \in SpecialSchemes
       THEN parse_special(to_ascii_lowercase(scheme), rest)
       ELSE parse_opaque(to_ascii_lowercase(scheme), rest)

\* RawUrl::path
path(url) == url.path

\* mutant: the serialization leaves out the query
as_str_without_query(url) ==
    url.scheme \o ":"
    \o (IF is_some(url.host) THEN "//" \o unwrap(url.host) ELSE "")
    \o (IF is_some(url.port) THEN ":" \o unwrap(url.port) ELSE "")
    \o url.path
    \o (IF is_some(url.fragment) THEN "#" \o unwrap(url.fragment) ELSE "")

\* RawUrl::as_str: the serialization of the parsed URL
as_str(url) ==
    url.scheme \o ":"
    \o (IF is_some(url.host) THEN "//" \o unwrap(url.host) ELSE "")
    \o (IF is_some(url.port) THEN ":" \o unwrap(url.port) ELSE "")
    \o url.path
    \o (IF is_some(url.query) THEN "?" \o unwrap(url.query) ELSE "")
    \o (IF is_some(url.fragment) THEN "#" \o unwrap(url.fragment) ELSE "")

\* the strings handed to the URL constructors
UrlInputs ==
    { "https://example.com/audio.caf",
      "https://example.com/audio.caf?download=1",
      "HTTPS://Example.COM:443/audio.caf",
      "https://example.com/audio.mp3",
      "https://example.com/audio.mp3?file=audio.caf",
      "https://example.com/audio.mp3#audio.caf",
      "https://example.com/audio.CAF",
      "https://example.com",
      "data:audio/x-caf;base64,AAAA",
      "example.com/audio.caf",
      "https://audio.caf",
      "https://",
      "not a url" }

----------------------------------------------------------------------------
(* phonenumber::parse(None, s) and the E.164 form *)

ExtensionMarker == " ext. "

\* s without the characters of the set
RECURSIVE Strip(_, _)
Strip(s, set) ==
    IF Len(s) = 0 THEN ""
    ELSE (IF Char(s, 1) \in set THEN "" ELSE Char(s, 1))
         \o Strip(SubSeq(s, 2, Len(s)), set)

\* punctuation that may separate the digits of a number
Separators == { " ", "-", "(", ")", "." }

\* parse(None, s): an extension is split off, separators are dropped, and the
\* rest must be an international number.  The value holds the digits that
\* follow "+" (country code and national number) and the extension.
phonenumber_parse(s) ==
    LET at == FindSub(s, ExtensionMarker)
        main == SubSeq(s, 1, at - 1)
        ext == SubSeq(s, at + Len(ExtensionMarker), Len(s))
        digits == Strip(main, Separators)
    IN IF ~ phone_parse_ok(digits)
       THEN ParseError("invalid phone number")
       ELSE IF at <= Len(s) /\ ~ (Len(ext) \in 1..7 /\ Chars(ext) \subseteq Digits)
       THEN ParseError("invalid phone number")
       ELSE Ok([ number |-> SubSeq(digits, 2, Len(digits)),
                 extension |-> IF at <= Len(s) THEN Some(ext) ELSE None ])

\* number.format().mode(Mode::E164).to_string(): "+", country code, national
\* number; the extension is not part of the E.164 form
format_E164(number) == "+" \o number.number

\* the strings handed to phonenumber::parse
PhoneInputs ==
    { "+10722971673",
      "+1 072-297-1673",
      "+1 (999) 888-7777",
      "+10722971673 ext. 45",
      "10722971673",
      "not a number" }

----------------------------------------------------------------------------
(* Value objects: PhoneNumber, MediaUrl, CallbackUrl, VoiceNote *)

UrlTypes == { "MediaUrl", "CallbackUrl", "VoiceNote" }
ValueTypes == UrlTypes \cup { "PhoneNumber" }

NoValue ==
    [ T |-> "", ctor |-> "none", input |-> "", value |-> NoResult, wire |-> None,
      back |-> NoResult ]

INVALID_URL == "invalid url format"
INVALID_VOICE_NOTE == "invalid voice note url format, must end with .caf"

\* MediaUrl::new, CallbackUrl::new
Url_new(url) ==
    IF RawUrl_parse(url).tag = "Ok"
    THEN Ok(RawUrl_parse(url).value)
    ELSE Err("ValidationError", INVALID_URL)

\* mutant: the whole serialization is tested for the extension, not the path
VoiceNote_new_whole_url(url) ==
    IF RawUrl_parse(url).tag # "Ok"
    THEN Err("ValidationError", INVALID_URL)
    ELSE IF ends_with(as_str(RawUrl_parse(url).value), ".caf")
    THEN Ok(RawUrl_parse(url).value)
    ELSE Err("ValidationError", INVALID_VOICE_NOTE)

\* VoiceNote::new
VoiceNote_new(url) ==
    IF RawUrl_parse(url).tag # "Ok"
    THEN Err("ValidationError", INVALID_URL)
    ELSE IF ends_with(path(RawUrl_parse(url).value), ".caf")
    THEN Ok(RawUrl_parse(url).value)
    ELSE Err("ValidationError", INVALID_VOICE_NOTE)

\* T::new(s)
new_of(T, s) ==
    CASE T = "VoiceNote" -> VoiceNote_new(s)
      [] T \in { "MediaUrl", "CallbackUrl" } -> Url_new(s)
      [] T = "PhoneNumber" -> phonenumber_parse(s)

\* T::from_raw_url(raw_url): the URL is wrapped as it is
from_raw_url(T, raw_url) == raw_url

\* Serialize: the string written for a value
serialize(T, value) ==
    IF T = "PhoneNumber" THEN format_E164(value) ELSE as_str(value)

\* Deserialize: the value read from a JSON string; an error of new becomes a
\* custom serde error
deserialize(T, text) ==
    IF new_of(T, text).tag = "Ok"
    THEN new_of(T, text)
    ELSE Err("Custom", new_of(T, text).text)

InputsOf(T) == IF T = "PhoneNumber" THEN PhoneInputs ELSE UrlInputs

\* let v = T::new(s)
Value_new(T, s) ==
    /\ vo.ctor = "none"
    /\ vo' = [ NoValue EXCEPT !.T = T, !.ctor = "new", !.input = s,
                              !.value = new_of(T, s) ]
    /\ UNCHANGED <<clientVars, builderVars, proc, otherVars>>

\* let v = T::from_raw_url(RawUrl::parse(s).unwrap())
Value_from_raw_url(T, s) ==
    /\ vo.ctor = "none"
    /\ RawUrl_parse(s).tag = "Ok"
    /\ vo' = [ NoValue EXCEPT !.T = T, !.ctor = "from_raw_url", !.input = s,
                              !.value = Ok(from_raw_url(T, RawUrl_parse(s).value)) ]
    /\ UNCHANGED <<clientVars, builderVars, proc, otherVars>>

\* let v: T = serde_json::from_str("\"s\"")
Value_deserialize(T, s) ==
    /\ vo.ctor = "none"
    /\ vo' = [ NoValue EXCEPT !.T = T, !.ctor = "deserialize", !.input = s,
                              !.value = deserialize(T, s) ]
    /\ UNCHANGED <<clientVars, builderVars, proc, otherVars>>

\* serde_json::to_string(&v), for a value that exists
Value_serialize ==
    /\ vo.value.tag = "Ok"
    /\ is_none(vo.wire)
    /\ vo' = [ vo EXCEPT !.wire = Some(serialize(vo.T, vo.value.value)) ]
    /\ UNCHANGED <<clientVars, builderVars, proc, otherVars>>

\* serde_json::from_str of the string just written
Value_deserialize_back ==
    /\ is_some(vo.wire)
    /\ vo.back.tag = "none"
    /\ vo' = [ vo EXCEPT !.back = deserialize(vo.T, unwrap(vo.wire)) ]
    /\ UNCHANGED <<clientVars, builderVars, proc, otherVars>>

----------------------------------------------------------------------------
(* Encoding a request record and decoding a response body, on their own *)

\* Message values with every send style, and with none
StyledMessages ==
    { [ number |-> "+10722971673", content |-> Some("Test message"),
        media_url |-> None, status_callback |-> None, send_style |-> st ] :
      st \in { None } \cup { Some(x) : x \in SendStyle } }

\* serde_json::to_string(&message), as .json(message) does for the request
to_string(message) ==
    /\ call' = [ op |-> "to_string", T |-> "Message", R |-> "", arg |-> message ]
    /\ wire' = Some(send_message_request(client, message))
    /\ resp' = NoResponse
    /\ result' = NoResult
    /\ UNCHANGED <<client, pc, hits, calls, builderVars, restVars>>

\* serde_json::from_str::<T>(text) on the text of a JSON object, as the
\* 200 arm of process_response does
decode(T, members) ==
    /\ call' = [ op |-> "from_str", T |-> "", R |-> T, arg |-> members ]
    /\ wire' = None
    /\ resp' = [ status |-> 200, body |-> RenderJson(members), text_ok |-> TRUE ]
    /\ result' = decode_arm(T, RenderJson(members))
    /\ UNCHANGED <<client, pc, hits, calls, builderVars, restVars>>

----------------------------------------------------------------------------
(* The order of Status: src/model/status.rs, derive(PartialOrd, Ord) *)

\* the variants in the order of their declaration
StatusVariants == << "Queued", "Failed", "Sent", "Delivered", "Read", "Received" >>

StatusValues == { StatusVariants[i] : i \in 1..Len(StatusVariants) }

\* mutant: the discriminants count down
discriminant_descending(status) ==
    Len(StatusVariants) - (CHOOSE i \in 1..Len(StatusVariants) : StatusVariants[i] = status)

\* the discriminant of a variant: its position in the declaration, from 0
discriminant(status) ==
    (CHOOSE i \in 1..Len(StatusVariants) : StatusVariants[i] = status) - 1

\* Ord::cmp as derived: the discriminants are compared
cmp(a, b) ==
    IF discriminant(a) < discriminant(b) THEN "Less"
    ELSE IF discriminant(a) = discriminant(b) THEN "Equal"
    ELSE "Greater"

NoOrdering ==
    [ done |-> FALSE, a |-> "", b |-> "", c |-> "",
      ab |-> "", ba |-> "", bc |-> "", ac |-> "" ]

\* three values are compared with each other
Status_cmp(a, b, c) ==
    /\ ord' = [ done |-> TRUE, a |-> a, b |-> b, c |-> c,
                ab |-> cmp(a, b), ba |-> cmp(b, a), bc |-> cmp(b, c),
                ac |-> cmp(a, c) ]
    /\ UNCHANGED <<clientVars, builderVars, proc, vo, callers, conv>>

----------------------------------------------------------------------------
(* Concurrent callers of one Client *)

\* the tasks that hold a reference to the one Client
MaxCallers == 2
Callers == 1..MaxCallers

\* a task that has not called yet
IdleCaller ==
    [ pc |-> "idle", call |-> NoCall, wire |-> None, resp |-> NoResponse,
      result |-> NoResult, during |-> {} ]

NoCallers == [ i \in Callers |-> IdleCaller ]

\* the calls the tasks make, each with the request it builds from &self
ConcurrentCalls(c) ==
    { [ call |-> [ op |-> "send_message", T |-> "Message", R |-> "MessageResponse",
                   arg |-> message ],
        request |-> send_message_request(c, message) ] :
      message \in { m \in Messages : m.media_url = None } }
    \cup
    { [ call |-> [ op |-> "get_messages", T |-> "", R |-> "GetMessagesResponse",
                   arg |-> params ],
        request |-> get_messages_request(c, params) ] :
      params \in { p \in GetMessagesParamsSet : p.number = None } }

\* the responses the tasks receive
ConcurrentStatuses == { 200, 400 }
ConcurrentBodies == { MESSAGE_BODY_VARIANT_NAME, ERROR_BODY }

\* task i calls an operation: its request is built from the shared client
\* and sent, and the task awaits the response
concurrent_call(i, k) ==
    /\ callers[i].pc = "idle"
    /\ callers' = [ callers EXCEPT ![i] =
                      [ IdleCaller EXCEPT !.pc = "awaiting", !.call = k.call,
                                          !.wire = Some(k.request) ] ]
    /\ UNCHANGED <<clientVars, builderVars, proc, vo, ord, conv>>

\* task i's .send().await? fails
concurrent_transport_error(i) ==
    /\ callers[i].pc = "awaiting"
    /\ callers' = [ callers EXCEPT ![i].pc = "done",
                                   ![i].result = Err("ReqwestError", ""),
                                   ![i].during = { j \in Callers : callers[j].pc = "awaiting" } \ { i } ]
    /\ UNCHANGED <<clientVars, builderVars, proc, vo, ord, conv>>

\* mutant: the response is processed for the call of the first task that has
\* called, as if the call in progress were kept in the client
concurrent_receive_shared(i, status, body, text_ok) ==
    /\ callers[i].pc = "awaiting"
    /\ LET response == [ status |-> status, body |-> body, text_ok |-> text_ok ]
       IN callers' = [ callers EXCEPT ![i].pc = "done",
                                      ![i].resp = response,
                                      ![i].result = process_response(
                                          callers[CHOOSE j \in Callers :
                                                    /\ callers[j].pc # "idle"
                                                    /\ \A k \in Callers :
                                                         callers[k].pc # "idle" => j <= k].call.R,
                                          response),
                                      ![i].during = { j \in Callers : callers[j].pc = "awaiting" } \ { i } ]
    /\ UNCHANGED <<clientVars, builderVars, proc, vo, ord, conv>>

\* task i's .send().await? yields the response to its request, which
\* process_response::<R> turns into the task's result; during records the
\* tasks that were awaiting their own responses at that moment
concurrent_receive(i, status, body, text_ok) ==
    /\ callers[i].pc = "awaiting"
    /\ LET response == [ status |-> status, body |-> body, text_ok |-> text_ok ]
       IN callers' = [ callers EXCEPT ![i].pc = "done",
                                      ![i].resp = response,
                                      ![i].result = process_response(callers[i].call.R, response),
                                      ![i].during = { j \in Callers : callers[j].pc = "awaiting" } \ { i } ]
    /\ UNCHANGED <<clientVars, builderVars, proc, vo, ord, conv>>

----------------------------------------------------------------------------
(* convert: src/model/voice_note.rs *)

\* bytes a pipe between the caller and ffmpeg holds before a write blocks
PipeCapacity == 1

\* lengths of the audio handed to convert: up to one byte more than the two
\* pipes and ffmpeg together can hold
AudioLengths == 0..(2 * PipeCapacity + 2)

NOT_INSTALLED == "ffmpeg not installed or not found in PATH"
COMMAND_FAILED == "ffmpeg command failed"
START_FAILED == "failed to start ffmpeg process"
WRITE_FAILED == "failed to write audio data to ffmpeg"
READ_FAILED == "failed to read ffmpeg output"

\* convert has not been called: no child process, no pipes
NoConversion ==
    [ pc |-> "none", audio |-> 0, written |-> 0, stdin |-> 0, stdin_open |-> FALSE,
      pending |-> 0, stdout |-> 0, output |-> 0, child |-> "none", exit |-> 0,
      result |-> NoResult ]

\* base64::encode of n bytes; the bytes are modelled as zero bytes
RECURSIVE base64_encode(_)
base64_encode(n) ==
    IF n = 0 THEN ""
    ELSE IF n = 1 THEN "AA=="
    ELSE IF n = 2 THEN "AAA="
    ELSE "AAAA" \o base64_encode(n - 3)

\* the data URL of the output read from ffmpeg, parsed
data_url(output) ==
    LET url == RawUrl_parse("data:audio/x-caf;base64," \o base64_encode(output))
    IN IF url.tag = "Ok" THEN url ELSE Err("ValidationError", "failed to parse data URL")

\* convert returns
Return(r) == conv' = [ conv EXCEPT !.pc = "returned", !.result = r ]

convUnchanged == <<clientVars, builderVars, proc, vo, ord, callers>>

\* convert(audio, format) is called and runs "ffmpeg -version"
convert(audio) ==
    /\ conv.pc \in { "none", "returned" }
    /\ conv' = [ NoConversion EXCEPT !.pc = "version", !.audio = audio ]
    /\ UNCHANGED convUnchanged

\* "ffmpeg -version" cannot be run: ffmpeg is not installed
version_not_found ==
    /\ conv.pc = "version"
    /\ Return(Err("ValidationError", NOT_INSTALLED))
    /\ UNCHANGED convUnchanged

\* "ffmpeg -version" ran and exited: convert goes on when it succeeded
version_status(success) ==
    /\ conv.pc = "version"
    /\ IF success
         THEN conv' = [ conv EXCEPT !.pc = "spawn" ]
         ELSE Return(Err("ValidationError", COMMAND_FAILED))
    /\ UNCHANGED convUnchanged

\* the conversion process cannot be spawned
spawn_failed ==
    /\ conv.pc = "spawn"
    /\ Return(Err("Unknown", START_FAILED))
    /\ UNCHANGED convUnchanged

\* the conversion process is spawned with stdin and stdout piped
spawn ==
    /\ conv.pc = "spawn"
    /\ conv' = [ conv EXCEPT !.pc = "writing", !.child = "running", !.stdin_open = TRUE ]
    /\ UNCHANGED convUnchanged

\* stdin.write_all(&audio): one more byte enters the stdin pipe when the
\* pipe has room; the write waits while the pipe is full
write_all ==
    /\ conv.pc = "writing"
    /\ conv.written < conv.audio
    /\ conv.child = "running"
    /\ conv.stdin < PipeCapacity
    /\ conv' = [ conv EXCEPT !.stdin = @ + 1, !.written = @ + 1 ]
    /\ UNCHANGED convUnchanged

\* stdin.write_all(&audio) on a pipe whose reader has exited
write_all_broken_pipe ==
    /\ conv.pc = "writing"
    /\ conv.written < conv.audio
    /\ conv.child = "exited"
    /\ Return(Err("Unknown", WRITE_FAILED))
    /\ UNCHANGED convUnchanged

\* write_all has written everything: stdin is dropped at the end of the
\* if-let block, and convert starts to read stdout
drop_stdin ==
    /\ conv.pc = "writing"
    /\ conv.written = conv.audio
    /\ conv' = [ conv EXCEPT !.pc = "reading", !.stdin_open = FALSE ]
    /\ UNCHANGED convUnchanged

\* stdout.read_to_end(&mut output): a byte is taken from the stdout pipe
read_to_end ==
    /\ conv.pc = "reading"
    /\ conv.stdout > 0
    /\ conv' = [ conv EXCEPT !.stdout = @ - 1, !.output = @ + 1 ]
    /\ UNCHANGED convUnchanged

\* stdout.read_to_end(&mut output) fails
read_to_end_error ==
    /\ conv.pc = "reading"
    /\ Return(Err("Unknown", READ_FAILED))
    /\ UNCHANGED convUnchanged

\* stdout.read_to_end(&mut output) reaches end of file: the writer has
\* exited and the pipe is empty. The output is encoded and returned; the exit
\* status of the conversion process is not looked at
read_to_end_eof ==
    /\ conv.pc = "reading"
    /\ conv.stdout = 0
    /\ conv.child = "exited"
    /\ Return(data_url(conv.output))
    /\ UNCHANGED convUnchanged

\* ffmpeg reads a byte of its input; the byte may or may not make it
\* produce a byte of output, which it holds until it has written it
ffmpeg_read(produces) ==
    /\ conv.child = "running"
    /\ conv.pending = 0
    /\ conv.stdin > 0
    /\ conv' = [ conv EXCEPT !.stdin = @ - 1, !.pending = IF produces THEN 1 ELSE 0 ]
    /\ UNCHANGED convUnchanged

\* ffmpeg writes the byte it holds to stdout; the write waits while the
\* pipe is full
ffmpeg_write ==
    /\ conv.child = "running"
    /\ conv.pending > 0
    /\ conv.stdout < PipeCapacity
    /\ conv' = [ conv EXCEPT !.stdout = @ + 1, !.pending = 0 ]
    /\ UNCHANGED convUnchanged

\* ffmpeg sees the end of its input and exits with status 0
ffmpeg_exit ==
    /\ conv.child = "running"
    /\ conv.pending = 0
    /\ conv.stdin = 0
    /\ ~ conv.stdin_open
    /\ conv' = [ conv EXCEPT !.child = "exited", !.exit = 0 ]
    /\ UNCHANGED convUnchanged

\* ffmpeg gives up (input it cannot decode, say) and exits with status 1
ffmpeg_fail ==
    /\ conv.child = "running"
    /\ conv' = [ conv EXCEPT !.child = "exited", !.exit = 1, !.pending = 0 ]
    /\ UNCHANGED convUnchanged

----------------------------------------------------------------------------
(* Specifications *)

Init ==
    /\ client \in { Client_new(c[1], c[2]) : c \in Credentials }
    /\ pc = "idle"
    /\ call = NoCall
    /\ wire = None
    /\ hits = 0
    /\ calls = 0
    /\ resp = NoResponse
    /\ result = NoResult
    /\ builder = new_group_value
    /\ built = NoResult
    /\ passed = NoPassed
    /\ proc = NoProcess
    /\ vo = NoValue
    /\ ord = NoOrdering
    /\ callers = NoCallers
    /\ conv = NoConversion

Next ==
    \/ \E T \in SendableTypes : \E message \in SendableValues(T) : send(T, message)
    \/ \E message \in Messages : send_message(message)
    \/ \E message \in GroupMessages : send_group_message(message)
    \/ \E params \in GetMessagesParamsSet : get_messages(params)
    \/ \E es \in EvaluateServices : evaluate_service(es)
    \/ \E number \in TypingNumbers : send_typing_indicator(number)
    \/ transport_error
    \/ \E status \in Statuses, body \in Bodies, text_ok \in BOOLEAN :
          receive(status, body, text_ok)

Spec == Init /\ [][Next]_vars

NextBuilder ==
    \/ new_group
    \/ \E ns \in NumbersLists : numbers(ns)
    \/ \E g \in GroupIds : group_id(g)
    \/ \E c \in Contents : content(c)
    \/ \E u \in MediaUrls : media_url(u)
    \/ \E u \in CallbackUrls : status_callback(u)
    \/ \E s \in SendStyles : send_style(s)
    \/ build

SpecBuilder == Init /\ [][NextBuilder]_vars

\* the three builders of src/models/message.rs, one in use at a time
NextBuilders ==
    \/ NextBuilder
    \/ \E n \in PhoneNumbers : new(n)
    \/ \E c \in Contents : Message_content(c)
    \/ \E u \in MediaUrls : Message_media_url(u)
    \/ \E u \in CallbackUrls : Message_status_callback(u)
    \/ \E s \in SendStyles : Message_send_style(s)
    \/ Message_build
    \/ GetMessagesParamsBuilder_new
    \/ \E o \in OptionOf(Cids) : Params_cid(o)
    \/ \E o \in OptionOf(PhoneNumbers) : Params_number(o)
    \/ \E o \in OptionOf(Limits) : Params_limit(o)
    \/ \E o \in OptionOf(Offsets) : Params_offset(o)
    \/ \E o \in OptionOf(FromDates) : Params_from_date(o)
    \/ GetMessagesParamsBuilder_build

SpecBuilders == Init /\ [][NextBuilders]_vars

\* a process that constructs its Client and builds an EvaluateService request
InitSetup ==
    /\ client = NoClient
    /\ pc = "idle"
    /\ call = NoCall
    /\ wire = None
    /\ hits = 0
    /\ calls = 0
    /\ resp = NoResponse
    /\ result = NoResult
    /\ builder = evaluate_new_value
    /\ built = NoResult
    /\ passed = NoPassed
    /\ proc \in { Running(env) : env \in Envs }
    /\ vo = NoValue
    /\ ord = NoOrdering
    /\ callers = NoCallers
    /\ conv = NoConversion

NextSetup ==
    \/ \E api_key \in KeyInputs, api_secret \in SecretInputs :
          Client_new_call(api_key, api_secret)
    \/ from_env
    \/ EvaluateServiceBuilder_new
    \/ \E n \in PhoneNumbers : EvaluateServiceBuilder_number(n)
    \/ EvaluateServiceBuilder_build

SpecSetup == InitSetup /\ [][NextSetup]_vars

\* the value objects: construction, serialization, deserialization
NextValues ==
    \/ \E T \in ValueTypes : \E s \in InputsOf(T) : Value_new(T, s)
    \/ \E T \in UrlTypes : \E s \in UrlInputs : Value_from_raw_url(T, s)
    \/ \E T \in ValueTypes : \E s \in InputsOf(T) : Value_deserialize(T, s)
    \/ Value_serialize
    \/ Value_deserialize_back

SpecValues == Init /\ [][NextValues]_vars

\* the steps of convert that need nothing to go wrong, and those of ffmpeg
convertSteps ==
    \/ version_not_found
    \/ \E success \in BOOLEAN : version_status(success)
    \/ spawn
    \/ write_all
    \/ write_all_broken_pipe
    \/ drop_stdin
    \/ read_to_end
    \/ read_to_end_eof

ffmpegSteps ==
    \/ \E produces \in BOOLEAN : ffmpeg_read(produces)
    \/ ffmpeg_write
    \/ ffmpeg_exit

NextConvert ==
    \/ \E audio \in AudioLengths : convert(audio)
    \/ convertSteps
    \/ ffmpegSteps
    \/ spawn_failed
    \/ read_to_end_error
    \/ ffmpeg_fail

SpecConvert == Init /\ [][NextConvert]_vars

\* the caller's task and the conversion process are both scheduled: a step
\* of either that stays possible is taken; failures need not happen
SpecConvertFair ==
    SpecConvert /\ WF_vars(convertSteps) /\ WF_vars(ffmpegSteps)

\* tasks sharing the client
NextConcurrent ==
    \/ \E i \in Callers : \E k \in ConcurrentCalls(client) : concurrent_call(i, k)
    \/ \E i \in Callers : concurrent_transport_error(i)
    \/ \E i \in Callers : \E status \in ConcurrentStatuses, body \in ConcurrentBodies :
          concurrent_receive(i, status, body, TRUE)

SpecConcurrent == Init /\ [][NextConcurrent]_vars

\* encoding and decoding
NextCodec ==
    \/ \E message \in StyledMessages : to_string(message)
    \/ \E T \in ResponseTypes, members \in JsonObjects : decode(T, members)

SpecCodec == Init /\ [][NextCodec]_vars

\* comparisons of Status values
NextOrder ==
    \E a \in StatusValues, b \in StatusValues, c \in StatusValues : Status_cmp(a, b, c)

SpecOrder == Init /\ [][NextOrder]_vars

----------------------------------------------------------------------------
(* Properties of the client: checked under Spec *)

\* an operation has returned after the server answered
Answered == pc = "idle" /\ resp.status # 0

\* the body as the client read it
BodyRead == IF resp.text_ok THEN resp.body ELSE ""

\* C1: whatever the operation, a 400 response makes the call return
\* BadRequest carrying exactly the body that was read, undecoded even when
\* the body would decode, and never a success
C1_BadRequestCarriesBody ==
    (Answered /\ resp.status = 400) => result = Err("BadRequest", BodyRead)

\* a 400 whose body is a well-formed TypingIndicatorResponse is still BadRequest
C1_Witness ==
    /\ Answered
    /\ call.op = "send_typing_indicator"
    /\ resp = [ status |-> 400, body |-> RenderJson(TypingMembers), text_ok |-> TRUE ]
    /\ result.tag = "BadRequest"
    /\ result.text = "{\"number\":\"+10722971673\",\"status\":\"SENT\"}"

\* C2: a 200 or 202 response whose body does not decode into the
\* operation's response type makes the call return the Unknown error, never
\* a success value
C2_DecodeFailureIsError ==
    (Answered /\ resp.status \in { 200, 202 } /\ ~ from_str(call.R, BodyRead).ok)
        => result.tag = "Unknown"

C2_Witness ==
    /\ Answered
    /\ call.op = "get_messages"
    /\ resp = [ status |-> 202, body |-> HTML_BODY, text_ok |-> TRUE ]
    /\ result.tag = "Unknown"

C4_ThreeBuckets ==
    /\ result.tag = "Ok" => resp.status \in { 200, 202 }
    /\ result.tag = "BadRequest" => resp.status = 400
    /\ Answered => result.tag \in { "Ok", "BadRequest", "Unknown" }
    /\ (Answered /\ resp.status \notin { 200, 202, 400 })
          => result = Err("Unknown", BodyRead)

\* a 201 whose body would decode is an Unknown error carrying the body
C4_Witness ==
    /\ Answered
    /\ call.op = "send_message"
    /\ resp = [ status |-> 201, body |-> MESSAGE_BODY_VARIANT_NAME, text_ok |-> TRUE ]
    /\ from_str("MessageResponse", resp.body).ok
    /\ result = Err("Unknown", MESSAGE_BODY_VARIANT_NAME)

\* C5: a 200 with the well-formed MessageResponse body (status "QUEUED",
\* send_style "invisible") on /send-message makes send return Ok with status
\* Queued and the handle of the body, and likewise for the group body on
\* /send-group-message
C5_WellFormedBodyDecodes ==
    /\ (Answered /\ call.op = "send" /\ call.T = "Message"
          /\ resp = [ status |-> 200, body |-> MESSAGE_BODY, text_ok |-> TRUE ])
         => /\ result.tag = "Ok"
            /\ result.value["status"] = "Queued"
            /\ result.value["message_handle"] = "dfd747ba-5600-4a8a-804a-a614a0fbc1c5"
    /\ (Answered /\ call.op = "send" /\ call.T = "GroupMessage"
          /\ resp = [ status |-> 200, body |-> GROUP_BODY, text_ok |-> TRUE ])
         => /\ result.tag = "Ok"
            /\ result.value["status"] = "Queued"
            /\ result.value["message_handle"] = "073c1408-a6d9-48e2-ae8c-01f06443833"

\* C6: every operation call issues exactly one request, whatever its
\* outcome: the number of requests issued equals the number of calls
C6_OneRequestPerCall == hits = calls

\* two calls that both failed, and two requests
C6_Witness ==
    /\ pc = "idle"
    /\ calls = 2
    /\ hits = 2
    /\ result.tag \in { "Unknown", "BadRequest", "ReqwestError" }

\* C7: every request carries both authentication headers with the key and
\* the secret the client was constructed with
C7_AuthHeaders ==
    is_some(wire) =>
        /\ { KEY_HEADER, SECRET_HEADER } \subseteq DOMAIN unwrap(wire).headers
        /\ unwrap(wire).headers["sb-api-key-id"] = client.api_key
        /\ unwrap(wire).headers["sb-api-secret-key"] = client.api_secret
        /\ <<client.api_key, client.api_secret>> \in Credentials

C7_Witness ==
    /\ is_some(wire)
    /\ call.op = "get_messages"
    /\ unwrap(wire).headers["sb-api-key-id"] = "test_key"
    /\ unwrap(wire).headers["sb-api-secret-key"] = "test_secret"

\* the method and path of each operation, as the interface names them
EndpointOf(op, T) ==
    CASE op = "send_message" -> <<"POST", "/send-message">>
      [] op = "send_group_message" -> <<"POST", "/send-group-message">>
      [] op = "get_messages" -> <<"GET", "/accounts/messages">>
      [] op = "evaluate_service" -> <<"GET", "/evaluate-service">>
      [] op = "send_typing_indicator" -> <<"POST", "/send-typing-indicator">>
      [] op = "send" /\ T = "Message" -> <<"POST", "/send-message">>
      [] op = "send" /\ T = "GroupMessage" -> <<"POST", "/send-group-message">>

\* C8: the request of each operation has the method of its endpoint and the
\* URL made of the client's base address followed by the endpoint's path
C8_MethodAndUrl ==
    is_some(wire) =>
        /\ unwrap(wire).method = EndpointOf(call.op, call.T)[1]
        /\ unwrap(wire).url = client.base_url \o EndpointOf(call.op, call.T)[2]

C8_Witness ==
    /\ is_some(wire)
    /\ call.op = "send_group_message"
    /\ unwrap(wire).method = "POST"
    /\ unwrap(wire).url = "https://api.sendblue.co/api/send-group-message"

\* C9: the generic send and the dedicated operations agree: on the same
\* message they issue the same request, and on the same response they
\* return the same result
C9_SendEquivalent ==
    /\ (call.op = "send" /\ call.T = "Message") =>
          /\ unwrap(wire) = send_message_request(client, call.arg)
          /\ Answered => result = process_response("MessageResponse", resp)
    /\ (call.op = "send" /\ call.T = "GroupMessage") =>
          /\ unwrap(wire) = send_group_message_request(client, call.arg)
          /\ Answered => result = process_response("GroupMessageResponse", resp)
    /\ call.op = "send_message" =>
          /\ unwrap(wire) = send_request(client, "Message", call.arg)
          /\ Answered => result = process_response(ResponseType("Message"), resp)
    /\ call.op = "send_group_message" =>
          /\ unwrap(wire) = send_request(client, "GroupMessage", call.arg)
          /\ Answered => result = process_response(ResponseType("GroupMessage"), resp)

\* the generic send of a group message, answered with the group body
C9_Witness ==
    /\ Answered
    /\ call.op = "send"
    /\ call.T = "GroupMessage"
    /\ resp = [ status |-> 200, body |-> GROUP_BODY, text_ok |-> TRUE ]
    /\ result.tag = "Ok"
    /\ unwrap(wire).url = "https://api.sendblue.co/api/send-group-message"

----------------------------------------------------------------------------
(* Properties of the group builder: checked under SpecBuilder *)

\* build has been called
Built == ~ builder.live /\ built.tag # "none"

\* the value build was called on
Taken == unwrap(builder.group_message)

NoRecipients ==
    /\ (is_none(Taken.numbers) \/ unwrap(Taken.numbers) = <<>>)
    /\ is_none(Taken.group_id)

\* C10: with numbers unset or empty and group_id unset, build returns the
\* validation error "Either numbers or group_id must be provided" whatever
\* the other fields are, also when the content-or-media rule is violated too
C10_RecipientsRuleFirst ==
    (Built /\ NoRecipients)
        => built = Err("ValidationError", "Either numbers or group_id must be provided")

\* both rules violated at once, with an empty numbers list
C10_Witness ==
    /\ Built
    /\ Taken.numbers = Some(<<>>)
    /\ is_none(Taken.group_id)
    /\ is_none(Taken.content)
    /\ is_none(Taken.media_url)
    /\ built.text = "Either numbers or group_id must be provided"

\* C11: when the recipients rule is satisfied and neither content nor
\* media_url has been set, build returns the validation error
\* "Either content or media_url must be provided"
C11_ContentOrMediaRule ==
    (Built /\ ~ NoRecipients /\ is_none(Taken.content) /\ is_none(Taken.media_url))
        => built = Err("ValidationError", "Either content or media_url must be provided")

\* a group id alone, every other field unset
C11_Witness ==
    /\ Built
    /\ Taken.group_id = Some("group_id")
    /\ is_none(Taken.numbers)
    /\ is_none(Taken.content)
    /\ is_none(Taken.media_url)
    /\ built.text = "Either content or media_url must be provided"

\* C12: every GroupMessage that build returns as Ok has a non-empty numbers
\* list or a group id, and has content or a media URL
C12_OkSatisfiesBothRules ==
    (Built /\ built.tag = "Ok")
        => /\ \/ (is_some(built.value.numbers) /\ Len(unwrap(built.value.numbers)) >= 1)
              \/ is_some(built.value.group_id)
           /\ \/ is_some(built.value.content)
              \/ is_some(built.value.media_url)

\* a record built from an empty numbers list, a group id and a media URL
C12_Witness ==
    /\ Built
    /\ built.tag = "Ok"
    /\ built.value.numbers = Some(<<>>)
    /\ is_some(built.value.group_id)
    /\ is_none(built.value.content)
    /\ is_some(built.value.media_url)

----------------------------------------------------------------------------
(* Properties of the three builders: checked under SpecBuilders *)

\* the fields of the builder in use (of the consumed one, after build)
Current ==
    CASE builder.T = "Message" -> unwrap(builder.message)
      [] builder.T = "GroupMessage" -> unwrap(builder.group_message)
      [] builder.T = "GetMessagesParams" -> builder.params

\* the fields that have a setter
SetterFields ==
    CASE builder.T = "Message" ->
           { "content", "media_url", "status_callback", "send_style" }
      [] builder.T = "GroupMessage" ->
           { "numbers", "group_id", "content", "media_url", "send_style",
             "status_callback" }
      [] builder.T = "GetMessagesParams" ->
           { "cid", "number", "limit", "offset", "from_date" }

\* what a field must hold: the value last passed to its setter, absent when
\* the setter was never called (the GetMessagesParams setters are passed options)
Expected(f) ==
    IF builder.T = "GetMessagesParams"
    THEN IF is_some(passed[f]) THEN unwrap(passed[f]) ELSE None
    ELSE passed[f]

\* C13: for the Message and the GroupMessage builder, build returns a
\* validation error and no record whenever content is the empty string, and
\* content present in a returned record has length at least 1
C13_EmptyContentRejected ==
    (Built /\ builder.T \in { "Message", "GroupMessage" })
        => /\ (Current.content = Some(""))
                => (built.tag = "ValidationError" /\ built.value = <<>>)
           /\ (built.tag = "Ok" /\ is_some(built.value.content))
                => Len(unwrap(built.value.content)) >= 1

\* a Message builder with content "" and a media URL: validate() rejects it
C13_Witness ==
    /\ Built
    /\ builder.T = "Message"
    /\ Current.content = Some("")
    /\ is_some(Current.media_url)
    /\ built = Err("ValidationError", "content: Validation error: length")

\* C14: for each of the three builders, every field holds the value passed to
\* the last call of its setter and is absent when the setter was never
\* called (so no setter changes another field), and build returns either a
\* failure and no record or the record of exactly these fields
C14_LastSetterWins ==
    /\ \A f \in SetterFields : Current[f] = Expected(f)
    /\ builder.T = "Message" => Current.number = unwrap(passed.number)
    /\ Built => \/ (built.tag = "Ok" /\ built.value = Current)
                \/ (built.tag = "ValidationError" /\ built.value = <<>>)

\* a GetMessagesParams record built after cid(None) and number(Some(..)),
\* limit never called
C14_Witness ==
    /\ Built
    /\ builder.T = "GetMessagesParams"
    /\ passed.cid = Some(None)
    /\ passed.number = Some(Some("+10722971673"))
    /\ is_none(passed.limit)
    /\ built.tag = "Ok"
    /\ built.value.cid = None
    /\ built.value.number = Some("+10722971673")
    /\ built.value.limit = None

\* a GroupMessage record built after four setters, the other two never called
C14_WitnessGroup ==
    /\ Built
    /\ builder.T = "GroupMessage"
    /\ built.tag = "Ok"
    /\ built.value.numbers = Some(<<"+10722971673">>)
    /\ built.value.content = Some("Hello group!")
    /\ built.value.send_style = Some("Invisible")
    /\ is_some(built.value.status_callback)
    /\ is_none(built.value.group_id)
    /\ is_none(built.value.media_url)

----------------------------------------------------------------------------
(* Properties of construction: checked under SpecSetup *)

\* C15: EvaluateServiceBuilder::build called without a number having been
\* set returns a validation failure and does not terminate the process
C15_MissingNumberIsValidationFailure ==
    (builder.T = "EvaluateService" /\ ~ builder.live /\ is_none(builder.number))
        => (built.tag = "ValidationError" /\ ~ proc.panicked)

\* the panics of Client::new and Client::from_env
ConstructionPanics ==
    { "Invalid API key: failed to parse header value",
      "Invalid API secret: failed to parse header value",
      "Environment variable SB_API_KEY is not set",
      "Environment variable SB_API_SECRET is not set" }

\* C16: constructing a client never terminates the process, also when the
\* key or the secret is not a valid header value
C16_ConstructionNeverPanics ==
    ~ (proc.panicked /\ proc.panic \in ConstructionPanics)

----------------------------------------------------------------------------
(* Properties of the value objects: checked under SpecValues *)

\* the value in hand was made by T::new(vo.input)
MadeByNew(T) == vo.T = T /\ vo.ctor = "new"

\* C17: VoiceNote::new(s) succeeds exactly when s parses as an absolute URL
\* whose path ends with ".caf"; an unparsable s fails with "invalid url
\* format", a parsable s whose path does not end with ".caf" fails with the
\* voice-note error, also when its query, fragment or host ends with ".caf"
C17_VoiceNoteNew ==
    MadeByNew("VoiceNote") =>
        LET r == RawUrl_parse(vo.input)
        IN /\ (vo.value.tag = "Ok")
                <=> (r.tag = "Ok" /\ ends_with(r.value.path, ".caf"))
           /\ (r.tag # "Ok")
                => vo.value = Err("ValidationError", "invalid url format")
           /\ (r.tag = "Ok" /\ ~ ends_with(r.value.path, ".caf"))
                => vo.value = Err("ValidationError",
                                  "invalid voice note url format, must end with .caf")
           /\ (vo.input \in { "not a url", "example.com/audio.caf", "https://" })
                => vo.value.text = "invalid url format"
           /\ (vo.input \in { "https://example.com/audio.mp3?file=audio.caf",
                              "https://example.com/audio.mp3#audio.caf",
                              "https://audio.caf",
                              "https://example.com/audio.CAF" })
                => vo.value.text = "invalid voice note url format, must end with .caf"
           /\ (vo.input \in { "https://example.com/audio.caf",
                              "https://example.com/audio.caf?download=1" })
                => vo.value.tag = "Ok"

\* a URL whose query ends with ".caf" and whose path does not
C17_Witness ==
    /\ MadeByNew("VoiceNote")
    /\ vo.input = "https://example.com/audio.mp3?file=audio.caf"
    /\ vo.value = Err("ValidationError",
                      "invalid voice note url format, must end with .caf")

\* C18: every VoiceNote that exists, whether it comes from new, from
\* deserialization or from from_raw_url, wraps a URL whose path ends with ".caf"
C18_VoiceNotePathEndsWithCaf ==
    (vo.T = "VoiceNote" /\ vo.value.tag = "Ok")
        => ends_with(vo.value.value.path, ".caf")

\* the canonical form of the inputs that are not canonical themselves
CanonicalForm ==
    ("HTTPS://Example.COM:443/audio.caf" :> "https://example.com/audio.caf")
    @@ ("https://example.com" :> "https://example.com/")
    @@ ("https://audio.caf" :> "https://audio.caf/")
    @@ ("+1 072-297-1673" :> "+10722971673")
    @@ ("+1 (999) 888-7777" :> "+19998887777")
    @@ ("+10722971673 ext. 45" :> "+10722971673")

canonical(s) == IF s \in DOMAIN CanonicalForm THEN CanonicalForm[s] ELSE s

\* the value was parsed from a string, has been serialized and read back
Parsed == vo.ctor \in { "new", "deserialize" } /\ vo.value.tag = "Ok"

\* C19 as stated: the serialized form of a parsed value is the canonical form
\* of the input, and deserializing it yields a value equal to the original
C19_RoundTrip ==
    Parsed =>
        /\ is_some(vo.wire) => unwrap(vo.wire) = canonical(vo.input)
        /\ vo.back.tag # "none" => vo.back = vo.value

\* C19, amended: the serialized form of a parsed value is the canonical form
\* of the input; deserializing it yields a value equal to the original, except
\* that a phone number loses its extension, which E.164 does not carry
C19_RoundTripUpToExtension ==
    Parsed =>
        /\ is_some(vo.wire) => unwrap(vo.wire) = canonical(vo.input)
        /\ vo.back.tag # "none" =>
              IF vo.T = "PhoneNumber"
              THEN vo.back = Ok([ vo.value.value EXCEPT !.extension = None ])
              ELSE vo.back = vo.value

\* a formatted phone number: written as E.164 and read back equal
C19_Witness ==
    /\ Parsed
    /\ vo.T = "PhoneNumber"
    /\ vo.input = "+1 072-297-1673"
    /\ vo.wire = Some("+10722971673")
    /\ vo.back = vo.value

\* a phone number with an extension: read back without it
C19_WitnessExtension ==
    /\ Parsed
    /\ vo.T = "PhoneNumber"
    /\ vo.value.value.extension = Some("45")
    /\ vo.wire = Some("+10722971673")
    /\ vo.back.tag = "Ok"
    /\ vo.back.value.extension = None

\* a URL that is not in canonical form: written canonical and read back equal
C19_WitnessUrl ==
    /\ Parsed
    /\ vo.T = "MediaUrl"
    /\ vo.input = "HTTPS://Example.COM:443/audio.caf"
    /\ vo.wire = Some("https://example.com/audio.caf")
    /\ vo.back = vo.value

----------------------------------------------------------------------------
(* The typing indicator: checked under Spec *)

\* C20: every request of send_typing_indicator has the body {"number": n}
\* with n an E.164 number; a malformed number issues no request
C20_TypingNumberIsE164 ==
    (call.op = "send_typing_indicator" /\ is_some(wire))
        => /\ unwrap(wire).body = RenderJson(<< Member("number", JStr(call.arg)) >>)
           /\ phone_parse_ok(call.arg)

----------------------------------------------------------------------------
(* The order of Status: checked under SpecOrder *)

\* C21: the comparison of Status is a strict total order (exactly one of
\* a < b, a = b, b < a; transitive) in which Queued < Sent < Delivered < Read
C21_StatusStrictTotalOrder ==
    ord.done =>
        /\ ord.ab \in { "Less", "Equal", "Greater" }
        /\ (ord.ab = "Equal") <=> (ord.a = ord.b)
        /\ (ord.ab = "Less") <=> (ord.ba = "Greater")
        /\ (ord.ab = "Less" /\ ord.bc = "Less") => ord.ac = "Less"
        /\ (<<ord.a, ord.b>> \in { <<"Queued", "Sent">>, <<"Sent", "Delivered">>,
                                   <<"Delivered", "Read">>, <<"Queued", "Read">> })
              => ord.ab = "Less"

\* Queued, Sent and Read compared: each is less than the next
C21_Witness ==
    /\ ord.done
    /\ ord.a = "Queued"
    /\ ord.b = "Sent"
    /\ ord.c = "Read"
    /\ ord.ab = "Less"
    /\ ord.bc = "Less"
    /\ ord.ac = "Less"

----------------------------------------------------------------------------
(* Transport and body-read failures: checked under Spec *)

\* the call in progress has ended without a response
Failed_in_transport == pc = "idle" /\ call.op # "none" /\ resp.status = 0

\* C25: a call whose HTTP exchange fails in the network layer returns the
\* transport error, not BadRequest, ValidationError or a success, and no
\* response is classified; the transport error is returned in no other case
C25_TransportFailure ==
    /\ Failed_in_transport
          => (result = Err("ReqwestError", "") /\ resp = NoResponse)
    /\ (pc = "idle" /\ result.tag = "ReqwestError") => Failed_in_transport

\* a send whose exchange failed
C25_Witness ==
    /\ Failed_in_transport
    /\ call.op = "send"
    /\ hits = 1
    /\ result.tag = "ReqwestError"

\* C28: when reading the body fails the text is "": a 400 gives
\* BadRequest(""), a 200 or 202 gives the decode failure of the empty text,
\* every other status gives Unknown(""), whatever the body was
C28_BodyReadFailure ==
    (Answered /\ ~ resp.text_ok)
        => /\ resp.status = 400 => result = Err("BadRequest", "")
           /\ resp.status \in { 200, 202 }
                => result = Err("Unknown",
                                "Failed to decode response: EOF while parsing a value")
           /\ resp.status \notin { 200, 202, 400 } => result = Err("Unknown", "")

\* a 200 whose body would have decoded, had it been read
C28_Witness ==
    /\ Answered
    /\ ~ resp.text_ok
    /\ resp.status = 200
    /\ resp.body = MESSAGE_BODY_VARIANT_NAME
    /\ call.R = "MessageResponse"
    /\ result.tag = "Unknown"

----------------------------------------------------------------------------
(* The single-message builder: checked under SpecBuilders *)

\* C27: MessageBuilder::new(number).build() with neither content nor
\* media_url set returns Ok with the recipient alone, and the record
\* serializes to a request body that holds just the number
C27_RecipientAlone ==
    (Built /\ builder.T = "Message"
           /\ is_none(Current.content) /\ is_none(Current.media_url)
           /\ is_none(Current.status_callback) /\ is_none(Current.send_style))
        => /\ built = Ok(Current)
           /\ send_message_request(client, built.value).body
                = "{\"number\":\"" \o Current.number \o "\"}"

\* new(number).build()
C27_Witness ==
    /\ Built
    /\ builder.T = "Message"
    /\ passed = [ NoPassed EXCEPT !.number = Some("+10722971673") ]
    /\ built.tag = "Ok"
    /\ built.value.number = "+10722971673"
    /\ is_none(built.value.content)
    /\ is_none(built.value.media_url)

\* C30: a MessageBuilder<Message> always holds a message and no group
\* message, a MessageBuilder<GroupMessage> a group message and no message,
\* and build never returns a "not initialized" error
C30_BuilderInitialized ==
    /\ builder.T = "Message"
          => (is_some(builder.message) /\ is_none(builder.group_message))
    /\ builder.T = "GroupMessage"
          => (is_some(builder.group_message) /\ is_none(builder.message))
    /\ Built => built.text \notin { "Message not initialized",
                                     "GroupMessage not initialized" }

\* a Message builder after two setters, built into a record
C30_Witness ==
    /\ Built
    /\ builder.T = "Message"
    /\ is_some(builder.message)
    /\ is_none(builder.group_message)
    /\ Current.content = Some("Hello group!")
    /\ is_some(Current.send_style)
    /\ built.tag = "Ok"

----------------------------------------------------------------------------
(* Wire tokens of the enumerations: checked under SpecCodec *)

\* C22: SendStyle::Default is written as the empty token, and the body of
\* test_send_message_success, whose send_style is "invisible", decodes to a
\* response whose send_style is Invisible
C22_SendStyleWireTokens ==
    /\ (call.op = "to_string" /\ call.arg.send_style = Some("Default"))
          => Contains(unwrap(wire).body, "\"send_style\":\"\"")
    /\ (call.op = "from_str" /\ call.R = "MessageResponse" /\ resp.body = MESSAGE_BODY)
          => (result.tag = "Ok" /\ result.value.send_style = Some("Invisible"))

\* the variant an error_code token stands for
ErrorCodeOf(j) == IF j.v \in DOMAIN ErrorCode THEN ErrorCode[j.v] ELSE "Unknown"

\* C23: a response whose error_code is any token other than null decodes,
\* and its error_code is the token's variant, Unknown for an unmodelled token
C23_ErrorCodeTotal ==
    (call.op = "from_str" /\ call.R = "MessageResponse"
       /\ \E t \in ErrorCodeTokens \ { JNull } :
             call.arg = MessageMembersWith(t, "Invisible"))
        => /\ result.tag = "Ok"
           /\ result.value.error_code = Some(ErrorCodeOf(MemberOf(call.arg, "error_code")))

\* the string half of C23, which holds: a response whose error_code is a
\* JSON string decodes, an unmodelled code as Unknown
StringErrorCodesDecode ==
    (call.op = "from_str" /\ call.R = "MessageResponse"
       /\ \E t \in ErrorCodeTokens : t.t = "string"
                                      /\ call.arg = MessageMembersWith(t, "Invisible"))
        => /\ result.tag = "Ok"
           /\ result.value.error_code = Some(ErrorCodeOf(MemberOf(call.arg, "error_code")))

----------------------------------------------------------------------------
(* Sharing the client: checked under SpecConcurrent *)

\* the result task i's own request and response determine
OwnResult(i) ==
    IF callers[i].resp = NoResponse
      THEN Err("ReqwestError", "")
      ELSE process_response(callers[i].call.R, callers[i].resp)

\* C24: under every interleaving, each task's request is the one its own
\* call builds from the client, each task's result is the one its own
\* request and response determine, two tasks with the same call and the same
\* response have the same result, and no step changes the client's key,
\* secret, headers or base address
C24_SharedClientIsSafe ==
    /\ [](\A i \in Callers :
            /\ callers[i].pc = "idle" => callers[i].result = NoResult
            /\ callers[i].pc # "idle" =>
                  \E k \in ConcurrentCalls(client) :
                      k.call = callers[i].call /\ callers[i].wire = Some(k.request)
            /\ callers[i].pc = "done" => callers[i].result = OwnResult(i))
    /\ [](\A i, j \in Callers :
            (callers[i].pc = "done" /\ callers[j].pc = "done"
               /\ callers[i].call = callers[j].call /\ callers[i].resp = callers[j].resp)
              => callers[i].result = callers[j].result)
    /\ [][client' = client]_vars

\* two tasks were in flight together, called different operations, got the
\* same response and hold different results
C24_Witness ==
    /\ callers[1].pc = "done" /\ callers[2].pc = "done"
    /\ 2 \in callers[1].during
    /\ callers[1].call.op = "get_messages" /\ callers[2].call.op = "send_message"
    /\ callers[1].resp = callers[2].resp
    /\ callers[1].result.tag = "Unknown" /\ callers[2].result.tag = "Ok"

----------------------------------------------------------------------------
(* convert: checked under SpecConvert and SpecConvertFair *)

\* C26: convert returns a different error when ffmpeg is not installed, when
\* ffmpeg exits non-zero and when talking to ffmpeg fails, and it never
\* returns a data URL when the conversion process has exited non-zero
C26_ConvertFailsDistinctly ==
    /\ Cardinality({ NOT_INSTALLED, COMMAND_FAILED, START_FAILED, WRITE_FAILED,
                     READ_FAILED }) = 5
    /\ (conv.pc = "returned" /\ conv.child = "exited" /\ conv.exit # 0)
          => conv.result.tag # "Ok"

\* C29: convert reads no output before it has written the whole input, and
\* every call of convert returns
C29_ConvertReturns ==
    /\ []((conv.pc = "reading" \/ conv.output > 0) => conv.written = conv.audio)
    /\ ((conv.pc \notin { "none", "returned" }) ~> (conv.pc = "returned"))

\* the safety half of C29, which holds
WritesBeforeReading ==
    (conv.pc = "reading" \/ conv.output > 0) => conv.written = conv.audio

\* the state C29 fails in: convert waits for room in the stdin pipe while
\* ffmpeg waits for room in the stdout pipe
ConvertDeadlock ==
    /\ conv.pc = "writing" /\ conv.written < conv.audio /\ conv.stdin = PipeCapacity
    /\ conv.child = "running" /\ conv.pending > 0 /\ conv.stdout = PipeCapacity

====
